---- MODULE Spec2Model ----
(***************************************************************************)
(* State-machine model of the ST7789V display driver                       *)
(* (src/drivers/st7789v.c) and of the program that owns it                 *)
(* (src/init/main.c).                                                      *)
(*                                                                         *)
(* Three contexts run interleaved:                                         *)
(*   - the call context: one serialised caller executing driver functions  *)
(*     statement by statement (the continuation `cont`);                   *)
(*   - the DMA-completion interrupt handler st7789v_dma_irq_handler        *)
(*     (its position is `irq_pc`);                                         *)
(*   - the alarm pool, which runs unlock_mutex_alarm_callback when a       *)
(*     scheduled one-shot alarm is due (`alarms`).                         *)
(* The DMA engine and the display controller are the environment.          *)
(***************************************************************************)
EXTENDS Integers, Sequences, FiniteSets, TLC

VARIABLES
    main_pc,                          \* position of main(): "boot", "app", "halt"
    is_plugged,                       \* st7789v.c:31
    dma_data_channel,                 \* st7789v.c:25
    claimed,                          \* DMA channels the driver claimed and did not unclaim
    dma_operation_completion_signal,  \* st7789v.c:27
    dma_operation_close_comm,         \* st7789v.c:28
    mutex,                            \* owner field of the five mutex_t, st7789v.c:37-64
    cs,                               \* level of ST7789V_PIN_CS
    dc,                               \* level of ST7789V_PIN_DC
    dma_busy,                         \* dma_channel_is_busy(dma_data_channel)
    irq0_status,                      \* dma_channel_get_irq0_status(dma_data_channel)
    irq_pc,                           \* position of st7789v_dma_irq_handler
    alarms,                           \* pending one-shot alarms, in scheduling order
    cont,                             \* statements the call context still has to run
    op,                               \* the top-level call in progress / last returned
    pre,                              \* what the advisory predicates said at call time
    result,                           \* value returned by the last function that returned
    buffer,                           \* the caller-side read buffer of the current call
    log,                              \* what the current top-level call did so far
    xfers,                            \* triggered DMA transfers not yet handed off
    done,                             \* record of the last finished Completion Handoff
    panel                             \* the controller: register addressed, MADCTL value

vars == << main_pc, is_plugged, dma_data_channel, claimed, dma_operation_completion_signal,
           dma_operation_close_comm, mutex, cs, dc, dma_busy, irq0_status, irq_pc,
           alarms, cont, op, pre, result, buffer, log, xfers, done, panel >>

-----------------------------------------------------------------------------
(* Program constants                                                       *)

ENODISPLAYCONNECTED == 1
EDISPLAYBUSY == 2
ENODMAAVAILABLE == 4
ENOTINRANGE == 5

COMMAND_NO_OPERATION == 0
COMMAND_SOFTWARE_RESET == 1
COMMAND_READ_DISPLAY_ID == 4
COMMAND_READ_DISPLAY_POWER == 10
COMMAND_SLEEP_IN == 16
COMMAND_SLEEP_OUT == 17
COMMAND_MEMORY_WRITE == 44
COMMAND_COLUMN_ADDRESS_SET == 42
COMMAND_ROW_ADDRESS_SET == 43
COMMAND_VERTICAL_SCROLLING_DEFINITION == 51
COMMAND_READ_DISPLAY_MEMORY_ACCESS_CONTROL == 11
COMMAND_MEMORY_ACCESS_CONTROL == 54
COMMAND_GET_SCANLINE == 69
COMMAND_READ_DISPLAY_BRIGHTNESS == 82
COMMAND_READ_DISPLAY_STATUS == 9
COMMAND_GAMMA_SET == 38
COMMAND_READ_CTRL_DISPLAY == 84

ST7789V_DISPLAY_ID == 8750418

\* the owner value of a free mutex_t; a zero-initialised static mutex_t has owner 0
LOCK_INVALID_OWNER_ID == -1
\* lock_get_caller_owner_id() of the call context (main runs on core 0)
CallerOwnerId == 0

\* the two protocol delays of a timed window, in milliseconds
ShortDelayMs == 5
LongDelayMs == 120

\* number of values of the return type `byte`
ByteRange == 256

\* number of values of the return type `uint16_t`
WordRange == 65536

-----------------------------------------------------------------------------
(* Bounds of the model                                                     *)

\* number of distinct caller-supplied completion semaphores
MaxSemaphores == 1

\* number of DMA channels of the chip that the model keeps track of
MaxChannels == 2

Channels == 0..(MaxChannels - 1)

Semaphores == { "sem" \o ToString(k) : k \in 1..MaxSemaphores }
NULL == "NULL"

MutexNames == { "communication_lock", "busy_lock", "sleep_lock",
                "sleep_switch_state_lock", "reset_lock" }

-----------------------------------------------------------------------------
(* Advisory predicates                                                     *)

st7789v_is_dma_busy == dma_busy

\* st7789v_is_reset_busy looking at the lock of the other window
st7789v_is_reset_busy_SleepLock == mutex["sleep_lock"] # LOCK_INVALID_OWNER_ID

st7789v_is_reset_busy == mutex["reset_lock"] # LOCK_INVALID_OWNER_ID

st7789v_is_sleep_busy == mutex["sleep_lock"] # LOCK_INVALID_OWNER_ID

\* the check without its third predicate
AdvisoryBusy_NoSleep == st7789v_is_dma_busy \/ st7789v_is_reset_busy

\* the check without its second predicate
AdvisoryBusy_NoReset == st7789v_is_dma_busy \/ st7789v_is_sleep_busy

\* the check every protocol-layer function makes after the is_plugged check
AdvisoryBusy == st7789v_is_dma_busy \/ st7789v_is_reset_busy \/ st7789v_is_sleep_busy

\* st7789v_dma_write looking at the DMA channel only
DmaWriteAdvisoryBusy_DmaOnly == st7789v_is_dma_busy

\* the same check as written in st7789v_dma_write
DmaWriteAdvisoryBusy ==
    st7789v_is_dma_busy \/ st7789v_is_reset_busy \/ st7789v_is_sleep_busy

-----------------------------------------------------------------------------
(* Statements of the call context                                          *)

NoArgs == [cmd |-> 0, bytes |-> << >>, n |-> 0, sig |-> NULL, close |-> FALSE,
           sync |-> FALSE, w |-> << >>]

SCall(f, a)  == [i |-> "call", f |-> f, a |-> a]
SLock(m)     == [i |-> "lock", m |-> m]
SUnlock(m)   == [i |-> "unlock", m |-> m]
SCs(v)       == [i |-> "cs", v |-> v]
SDc(v)       == [i |-> "dc", v |-> v]
SWrite(b)    == [i |-> "spi_write", bytes |-> b]
SRead(n)     == [i |-> "spi_read", n |-> n]
SDummy       == [i |-> "dummy_cycle"]
SStore(a)    == [i |-> "dma_store", sig |-> a.sig, close |-> a.close]
STrigger(a)  == [i |-> "dma_trigger", sig |-> a.sig, close |-> a.close]
SWaitDma     == [i |-> "dma_wait"]
SAlarm(ms, m) == [i |-> "add_alarm", ms |-> ms, m |-> m]
SSleep(ms)   == << [i |-> "sleep_start", ms |-> ms], [i |-> "sleep_wait"] >>
SRet(t, v)   == [i |-> "ret", t |-> t, src |-> "value", v |-> v]
SRetBuffer(t) == [i |-> "ret", t |-> t, src |-> "buffer", v |-> 0]
SClaim       == [i |-> "dma_claim"]
SSetup       == [i |-> "setup"]
SPlug(v)     == [i |-> "set_plugged", v |-> v]
SCheckId     == [i |-> "check_id"]
SCheckSum(a) == [i |-> "check_sum", w |-> a.w]

\* what a function returning type t hands back for the integer v.  Values of the
\* 32-bit types (error_t, int32_t, uint32_t) are kept as their 32-bit pattern read in
\* two's complement, so the conversion between them leaves the pattern alone.
RetConv(t, v) ==
    CASE t = "byte"     -> v % ByteRange
      [] t = "uint16_t" -> v % WordRange
      [] OTHER          -> v

RetType(f) ==
    CASE f = "st7789v_display_read_id"         -> "uint32_t"
      [] f = "st7789v_display_read_power_mode" -> "byte"
      [] f = "st7789v_display_read_memory_access_control" -> "byte"
      [] f = "st7789v_display_get_display_brightness"     -> "byte"
      [] f = "st7789v_display_get_scanline"    -> "uint16_t"
      [] f = "st7789v_display_read_status"     -> "int32_t"
      [] f = "st7789v_display_get_ctrl_register" -> "uint32_t"
      [] OTHER                                 -> "error_t"

-----------------------------------------------------------------------------
(* Function bodies: the statements after the entry checks                  *)

st7789v_begin_comm(a) ==
    << SLock("communication_lock"), SCs(0), SRet("error_t", 0) >>

st7789v_end_comm(a) ==
    << SCs(1), SUnlock("communication_lock"), SRet("error_t", 0) >>

st7789v_begin_command == SDc(0)

st7789v_end_command == SDc(1)

\* st7789v_write_sync driving the bus without taking busy_lock
st7789v_write_sync_NoBusyLock(a) ==
    << SWrite(a.bytes), SRet("error_t", 0) >>

st7789v_write_sync(a) ==
    << SLock("busy_lock"), SWrite(a.bytes), SUnlock("busy_lock"), SRet("error_t", 0) >>

st7789v_read_sync(a) ==
    << SLock("busy_lock"), SRead(a.n), SUnlock("busy_lock"), SRet("error_t", 0) >>

\* st7789v_dma_write giving busy_lock back itself, as the synchronous transfers do
st7789v_dma_write_SelfRelease(a) ==
    << SStore(a), SLock("busy_lock"), STrigger(a), SUnlock("busy_lock"),
       SRet("error_t", 0) >>

st7789v_dma_write(a) ==
    << SStore(a), SLock("busy_lock"), STrigger(a), SRet("error_t", 0) >>

st7789v_sync_dma_operation(a) ==
    << SWaitDma, SLock("busy_lock"), SUnlock("busy_lock"), SRet("error_t", 0) >>

\* st7789v_send_command_sync leaving the data/command line alone
st7789v_send_command_sync_NoFraming(a) ==
    << SCall("st7789v_write_sync", [NoArgs EXCEPT !.bytes = << a.cmd >>]) >>
    \o (IF Len(a.bytes) > 0
        THEN << SCall("st7789v_write_sync", [NoArgs EXCEPT !.bytes = a.bytes]) >>
        ELSE << >>)
    \o << SRet("error_t", 0) >>

st7789v_send_command_sync(a) ==
    << st7789v_begin_command,
       SCall("st7789v_write_sync", [NoArgs EXCEPT !.bytes = << a.cmd >>]),
       st7789v_end_command >>
    \o (IF Len(a.bytes) > 0
        THEN << SCall("st7789v_write_sync", [NoArgs EXCEPT !.bytes = a.bytes]) >>
        ELSE << >>)
    \o << SRet("error_t", 0) >>

SendCommand(c, b) ==
    SCall("st7789v_send_command_sync", [NoArgs EXCEPT !.cmd = c, !.bytes = b])

st7789v_display_no_operation(a) ==
    << SCall("st7789v_begin_comm", NoArgs),
       SendCommand(COMMAND_NO_OPERATION, << >>),
       SCall("st7789v_end_comm", NoArgs),
       SRet("error_t", 0) >>

\* st7789v_display_software_reset leaving reset_lock alone
st7789v_display_software_reset_NoResetLock(a) ==
    << SLock("sleep_switch_state_lock"),
       SCall("st7789v_begin_comm", NoArgs),
       SendCommand(COMMAND_SOFTWARE_RESET, << >>),
       SCall("st7789v_end_comm", NoArgs),
       SAlarm(ShortDelayMs, "reset_lock"),
       SAlarm(LongDelayMs, "sleep_switch_state_lock") >>
    \o (IF a.sync THEN SSleep(ShortDelayMs) ELSE << >>)
    \o << SRet("error_t", 0) >>

\* st7789v_display_software_reset scheduling the 5 ms alarm only
st7789v_display_software_reset_NoLongAlarm(a) ==
    << SLock("reset_lock"),
       SLock("sleep_switch_state_lock"),
       SCall("st7789v_begin_comm", NoArgs),
       SendCommand(COMMAND_SOFTWARE_RESET, << >>),
       SCall("st7789v_end_comm", NoArgs),
       SAlarm(ShortDelayMs, "reset_lock") >>
    \o (IF a.sync THEN SSleep(ShortDelayMs) ELSE << >>)
    \o << SRet("error_t", 0) >>

\* st7789v_display_software_reset returning without the synchronous wait
st7789v_display_software_reset_NoSyncWait(a) ==
    << SLock("reset_lock"),
       SLock("sleep_switch_state_lock"),
       SCall("st7789v_begin_comm", NoArgs),
       SendCommand(COMMAND_SOFTWARE_RESET, << >>),
       SCall("st7789v_end_comm", NoArgs),
       SAlarm(ShortDelayMs, "reset_lock"),
       SAlarm(LongDelayMs, "sleep_switch_state_lock"),
       SRet("error_t", 0) >>

st7789v_display_software_reset(a) ==
    << SLock("reset_lock"),
       SLock("sleep_switch_state_lock"),
       SCall("st7789v_begin_comm", NoArgs),
       SendCommand(COMMAND_SOFTWARE_RESET, << >>),
       SCall("st7789v_end_comm", NoArgs),
       SAlarm(ShortDelayMs, "reset_lock"),
       SAlarm(LongDelayMs, "sleep_switch_state_lock") >>
    \o (IF a.sync THEN SSleep(ShortDelayMs) ELSE << >>)
    \o << SRet("error_t", 0) >>

\* the sleep transitions waiting the short delay only
SleepSwitch_ShortSleep(c, a) ==
    << SCall("st7789v_begin_comm", NoArgs),
       SendCommand(c, << >>),
       SLock("sleep_lock"),
       SLock("sleep_switch_state_lock"),
       SCall("st7789v_end_comm", NoArgs),
       SAlarm(ShortDelayMs, "sleep_lock"),
       SAlarm(LongDelayMs, "sleep_switch_state_lock") >>
    \o (IF a.sync THEN SSleep(ShortDelayMs) ELSE << >>)
    \o << SRet("error_t", 0) >>

\* the sleep transitions with the delays of their two alarms exchanged
SleepSwitch_SwappedDelays(c, a) ==
    << SCall("st7789v_begin_comm", NoArgs),
       SendCommand(c, << >>),
       SLock("sleep_lock"),
       SLock("sleep_switch_state_lock"),
       SCall("st7789v_end_comm", NoArgs),
       SAlarm(LongDelayMs, "sleep_lock"),
       SAlarm(ShortDelayMs, "sleep_switch_state_lock") >>
    \o (IF a.sync THEN SSleep(LongDelayMs) ELSE << >>)
    \o << SRet("error_t", 0) >>

SleepSwitch(c, a) ==
    << SCall("st7789v_begin_comm", NoArgs),
       SendCommand(c, << >>),
       SLock("sleep_lock"),
       SLock("sleep_switch_state_lock"),
       SCall("st7789v_end_comm", NoArgs),
       SAlarm(ShortDelayMs, "sleep_lock"),
       SAlarm(LongDelayMs, "sleep_switch_state_lock") >>
    \o (IF a.sync THEN SSleep(LongDelayMs) ELSE << >>)
    \o << SRet("error_t", 0) >>

st7789v_display_sleep_in(a) == SleepSwitch(COMMAND_SLEEP_IN, a)

st7789v_display_sleep_out(a) == SleepSwitch(COMMAND_SLEEP_OUT, a)

st7789v_display_read_id(a) ==
    << SCall("st7789v_begin_comm", NoArgs),
       st7789v_begin_command,
       SCall("st7789v_write_sync", [NoArgs EXCEPT !.bytes = << COMMAND_READ_DISPLAY_ID >>]),
       st7789v_end_command,
       SDummy,
       SCall("st7789v_read_sync", [NoArgs EXCEPT !.n = 3]),
       SCall("st7789v_end_comm", NoArgs),
       SRetBuffer("uint32_t") >>

st7789v_display_read_power_mode(a) ==
    << SCall("st7789v_begin_comm", NoArgs),
       SendCommand(COMMAND_READ_DISPLAY_POWER, << >>),
       SCall("st7789v_read_sync", [NoArgs EXCEPT !.n = 1]),
       SCall("st7789v_end_comm", NoArgs),
       SRetBuffer("byte") >>

st7789v_display_read_memory_access_control(a) ==
    << SCall("st7789v_begin_comm", NoArgs),
       SendCommand(COMMAND_READ_DISPLAY_MEMORY_ACCESS_CONTROL, << >>),
       SCall("st7789v_read_sync", [NoArgs EXCEPT !.n = 1]),
       SCall("st7789v_end_comm", NoArgs),
       SRetBuffer("byte") >>

st7789v_display_get_display_brightness(a) ==
    << SCall("st7789v_begin_comm", NoArgs),
       SendCommand(COMMAND_READ_DISPLAY_BRIGHTNESS, << >>),
       SCall("st7789v_read_sync", [NoArgs EXCEPT !.n = 1]),
       SCall("st7789v_end_comm", NoArgs),
       SRetBuffer("byte") >>

\* the first read is the dummy byte; the second one overwrites it in the buffer
st7789v_display_get_scanline(a) ==
    << SCall("st7789v_begin_comm", NoArgs),
       SendCommand(COMMAND_GET_SCANLINE, << >>),
       SCall("st7789v_read_sync", [NoArgs EXCEPT !.n = 1]),
       SCall("st7789v_read_sync", [NoArgs EXCEPT !.n = 2]),
       SCall("st7789v_end_comm", NoArgs),
       SRetBuffer("uint16_t") >>

\* st7789v_display_read_status without the read turnaround
st7789v_display_read_status_NoDummy(a) ==
    << SCall("st7789v_begin_comm", NoArgs),
       st7789v_begin_command,
       SCall("st7789v_write_sync",
             [NoArgs EXCEPT !.bytes = << COMMAND_READ_DISPLAY_STATUS >>]),
       st7789v_end_command,
       SCall("st7789v_read_sync", [NoArgs EXCEPT !.n = 4]),
       SCall("st7789v_end_comm", NoArgs),
       SRetBuffer("int32_t") >>

st7789v_display_read_status(a) ==
    << SCall("st7789v_begin_comm", NoArgs),
       st7789v_begin_command,
       SCall("st7789v_write_sync",
             [NoArgs EXCEPT !.bytes = << COMMAND_READ_DISPLAY_STATUS >>]),
       st7789v_end_command,
       SDummy,
       SCall("st7789v_read_sync", [NoArgs EXCEPT !.n = 4]),
       SCall("st7789v_end_comm", NoArgs),
       SRetBuffer("int32_t") >>

\* a.bytes is << value >>, the local the function passes as the parameter of the
\* command before anything has been stored in it
st7789v_display_get_ctrl_register(a) ==
    << SCall("st7789v_begin_comm", NoArgs),
       SendCommand(COMMAND_READ_CTRL_DISPLAY, a.bytes),
       SCall("st7789v_read_sync", [NoArgs EXCEPT !.n = 1]),
       SCall("st7789v_end_comm", NoArgs),
       SRetBuffer("uint32_t") >>

GAMMA_CURVE_2_DOT_2 == 1
GAMMA_CURVE_1_DOT_8 == 2
GAMMA_CURVE_2_DOT_5 == 4
GAMMA_CURVE_1_DOT_0 == 8

\* switch (gamma_curve): the bitmask sent for the curve, 0x01 by default
GammaRawValue(curve) ==
    CASE curve = GAMMA_CURVE_1_DOT_0 -> 8
      [] curve = GAMMA_CURVE_2_DOT_5 -> 4
      [] curve = GAMMA_CURVE_1_DOT_8 -> 2
      [] OTHER                       -> 1

\* a.n is gamma_curve
st7789v_display_set_gamma_correction_curve(a) ==
    << SCall("st7789v_begin_comm", NoArgs),
       SendCommand(COMMAND_GAMMA_SET, << >>),
       SCall("st7789v_write_sync", [NoArgs EXCEPT !.bytes = << GammaRawValue(a.n) >>]),
       SCall("st7789v_end_comm", NoArgs),
       SRet("error_t", 0) >>

\* st7789v_display_set_memory_access_control sending the opcode without its parameter
st7789v_display_set_memory_access_control_NoParameter(a) ==
    << SCall("st7789v_begin_comm", NoArgs),
       SendCommand(COMMAND_MEMORY_ACCESS_CONTROL, << >>),
       SCall("st7789v_end_comm", NoArgs),
       SRet("error_t", 0) >>

\* a.bytes is << madctl.raw_value >>
st7789v_display_set_memory_access_control(a) ==
    << SCall("st7789v_begin_comm", NoArgs),
       SendCommand(COMMAND_MEMORY_ACCESS_CONTROL, a.bytes),
       SCall("st7789v_end_comm", NoArgs),
       SRet("error_t", 0) >>

RECURSIVE BigEndian(_)
\* the parameter bytes of 16-bit arguments: (x >> 8) & 0xFF, x & 0xFF for each
BigEndian(w) ==
    IF Len(w) = 0 THEN << >>
    ELSE << (Head(w) \div ByteRange) % ByteRange, Head(w) % ByteRange >>
         \o BigEndian(Tail(w))

st7789v_display_set_column_address_window(a) ==
    << SCall("st7789v_begin_comm", NoArgs),
       SendCommand(COMMAND_COLUMN_ADDRESS_SET, BigEndian(a.w)),
       SCall("st7789v_end_comm", NoArgs),
       SRet("error_t", 0) >>

st7789v_display_set_row_address_window(a) ==
    << SCall("st7789v_begin_comm", NoArgs),
       SendCommand(COMMAND_ROW_ADDRESS_SET, BigEndian(a.w)),
       SCall("st7789v_end_comm", NoArgs),
       SRet("error_t", 0) >>

st7789v_display_set_vertical_scrolling_parameters(a) ==
    << SCheckSum(a),
       SCall("st7789v_begin_comm", NoArgs),
       SendCommand(COMMAND_VERTICAL_SCROLLING_DEFINITION, BigEndian(a.w)),
       SCall("st7789v_end_comm", NoArgs),
       SRet("error_t", 0) >>

\* st7789v_display_memory_write_async leaving its transaction open at the handoff
st7789v_display_memory_write_async_LeftOpen(a) ==
    << SCall("st7789v_begin_comm", NoArgs),
       SendCommand(COMMAND_MEMORY_WRITE, << >>),
       SCall("st7789v_dma_write", [NoArgs EXCEPT !.sig = a.sig, !.close = FALSE]),
       SRet("error_t", 0) >>

st7789v_display_memory_write_async(a) ==
    << SCall("st7789v_begin_comm", NoArgs),
       SendCommand(COMMAND_MEMORY_WRITE, << >>),
       SCall("st7789v_dma_write", [NoArgs EXCEPT !.sig = a.sig, !.close = TRUE]),
       SRet("error_t", 0) >>

\* st7789v_init configuring the peripherals before it looks for a DMA channel
st7789v_init_SetupFirst(a) ==
    << SSetup,
       SClaim,
       SPlug(TRUE),
       SCall("st7789v_display_software_reset", [NoArgs EXCEPT !.sync = TRUE]),
       SCall("st7789v_display_read_id", NoArgs),
       SPlug(FALSE),
       SCheckId,
       SPlug(TRUE),
       SRet("error_t", 0) >>

st7789v_init(a) ==
    << SClaim,
       SSetup,
       SPlug(TRUE),
       SCall("st7789v_display_software_reset", [NoArgs EXCEPT !.sync = TRUE]),
       SCall("st7789v_display_read_id", NoArgs),
       SPlug(FALSE),
       SCheckId,
       SPlug(TRUE),
       SRet("error_t", 0) >>

Body(f, a) ==
    CASE f = "st7789v_begin_comm"             -> st7789v_begin_comm(a)
      [] f = "st7789v_end_comm"               -> st7789v_end_comm(a)
      [] f = "st7789v_write_sync"             -> st7789v_write_sync(a)
      [] f = "st7789v_read_sync"              -> st7789v_read_sync(a)
      [] f = "st7789v_dma_write"              -> st7789v_dma_write(a)
      [] f = "st7789v_sync_dma_operation"     -> st7789v_sync_dma_operation(a)
      [] f = "st7789v_send_command_sync"      -> st7789v_send_command_sync(a)
      [] f = "st7789v_display_no_operation"   -> st7789v_display_no_operation(a)
      [] f = "st7789v_display_software_reset" -> st7789v_display_software_reset(a)
      [] f = "st7789v_display_sleep_in"       -> st7789v_display_sleep_in(a)
      [] f = "st7789v_display_sleep_out"      -> st7789v_display_sleep_out(a)
      [] f = "st7789v_display_read_id"        -> st7789v_display_read_id(a)
      [] f = "st7789v_display_read_power_mode" -> st7789v_display_read_power_mode(a)
      [] f = "st7789v_display_read_memory_access_control"
                                      -> st7789v_display_read_memory_access_control(a)
      [] f = "st7789v_display_get_display_brightness"
                                      -> st7789v_display_get_display_brightness(a)
      [] f = "st7789v_display_get_scanline"   -> st7789v_display_get_scanline(a)
      [] f = "st7789v_display_read_status"    -> st7789v_display_read_status(a)
      [] f = "st7789v_display_get_ctrl_register"
                                      -> st7789v_display_get_ctrl_register(a)
      [] f = "st7789v_display_set_gamma_correction_curve"
                                      -> st7789v_display_set_gamma_correction_curve(a)
      [] f = "st7789v_display_set_memory_access_control"
                                      -> st7789v_display_set_memory_access_control(a)
      [] f = "st7789v_display_set_column_address_window"
                                              -> st7789v_display_set_column_address_window(a)
      [] f = "st7789v_display_set_row_address_window"
                                              -> st7789v_display_set_row_address_window(a)
      [] f = "st7789v_display_set_vertical_scrolling_parameters"
                                      -> st7789v_display_set_vertical_scrolling_parameters(a)
      [] f = "st7789v_display_memory_write_async"
                                              -> st7789v_display_memory_write_async(a)
      [] f = "st7789v_init"                   -> st7789v_init(a)

-----------------------------------------------------------------------------
(* Entry checks: the early returns at the top of each function             *)

Unguarded == { "st7789v_init" }

\* functions whose only entry check is is_plugged
PlugOnly == { "st7789v_begin_comm", "st7789v_end_comm" }

\* the entry checks with st7789v_sync_dma_operation always going on to wait
EntryCheck_NoIdleReturn(f) ==
    IF f \in Unguarded THEN "enter"
    ELSE IF ~is_plugged
         THEN (IF f = "st7789v_end_comm" THEN "false" ELSE "ENODISPLAYCONNECTED")
    ELSE IF f \in PlugOnly \cup { "st7789v_sync_dma_operation" } THEN "enter"
    ELSE IF f = "st7789v_dma_write"
         THEN (IF DmaWriteAdvisoryBusy THEN "EDISPLAYBUSY" ELSE "enter")
    ELSE IF AdvisoryBusy THEN "EDISPLAYBUSY" ELSE "enter"

\* the entry checks with each transition looking at the DMA channel and at the
\* predicate of its own window only
EntryCheck_OwnWindowOnly(f) ==
    IF f \in Unguarded THEN "enter"
    ELSE IF ~is_plugged
         THEN (IF f = "st7789v_end_comm" THEN "false" ELSE "ENODISPLAYCONNECTED")
    ELSE IF f \in PlugOnly THEN "enter"
    ELSE IF f = "st7789v_sync_dma_operation"
         THEN (IF ~st7789v_is_dma_busy THEN "idle" ELSE "enter")
    ELSE IF f = "st7789v_dma_write"
         THEN (IF DmaWriteAdvisoryBusy THEN "EDISPLAYBUSY" ELSE "enter")
    ELSE IF f = "st7789v_display_software_reset"
         THEN (IF st7789v_is_dma_busy \/ st7789v_is_reset_busy
               THEN "EDISPLAYBUSY" ELSE "enter")
    ELSE IF f \in { "st7789v_display_sleep_in", "st7789v_display_sleep_out" }
         THEN (IF st7789v_is_dma_busy \/ st7789v_is_sleep_busy
               THEN "EDISPLAYBUSY" ELSE "enter")
    ELSE IF AdvisoryBusy THEN "EDISPLAYBUSY" ELSE "enter"

\* the value of the early return taken on entry, or "enter" when the body runs
EntryCheck(f) ==
    IF f \in Unguarded THEN "enter"
    ELSE IF ~is_plugged
         THEN (IF f = "st7789v_end_comm" THEN "false" ELSE "ENODISPLAYCONNECTED")
    ELSE IF f \in PlugOnly THEN "enter"
    ELSE IF f = "st7789v_sync_dma_operation"
         THEN (IF ~st7789v_is_dma_busy THEN "idle" ELSE "enter")
    ELSE IF f = "st7789v_dma_write"
         THEN (IF DmaWriteAdvisoryBusy THEN "EDISPLAYBUSY" ELSE "enter")
    ELSE IF AdvisoryBusy THEN "EDISPLAYBUSY" ELSE "enter"

EntryValue(f) ==
    CASE EntryCheck(f) = "ENODISPLAYCONNECTED" -> RetConv(RetType(f), -ENODISPLAYCONNECTED)
      [] EntryCheck(f) = "EDISPLAYBUSY"        -> RetConv(RetType(f), -EDISPLAYBUSY)
      [] OTHER                                 -> 0

\* the continuation and the returned value after calling f(a) with `rest` to follow
Enter(f, a, rest) ==
    IF EntryCheck(f) = "enter" THEN Body(f, a) \o rest ELSE rest

EnterResult(f) ==
    IF EntryCheck(f) = "enter" THEN result ELSE EntryValue(f)

-----------------------------------------------------------------------------
(* Observation of the current top-level call                               *)

\* one thing the call context did: a lock operation, a pin change, a transfer
Ev(e, m, v, b) == [e |-> e, m |-> m, v |-> v, bytes |-> b, dc |-> dc, cs |-> cs]

\* the mutexes that have an owner
Held == { m \in MutexNames : mutex[m] # LOCK_INVALID_OWNER_ID }

\* the mutexes an alarm is scheduled to release
Scheduled == { alarms[i].m : i \in 1..Len(alarms) } \ { "sleep_ms" }

\* the driver as it stood when the top-level call was made: the link flag, the three
\* advisory predicates, the owned mutexes and the mutexes awaiting their alarm
Snapshot ==
    [ plugged |-> is_plugged,
      dma     |-> st7789v_is_dma_busy,
      reset   |-> st7789v_is_reset_busy,
      sleep   |-> st7789v_is_sleep_busy,
      held    |-> Held,
      timed   |-> Scheduled,
      cs      |-> cs ]

NoTransfer == [sig |-> NULL, close |-> FALSE, signalled |-> NULL, closed |-> FALSE,
               released |-> 0]

NoCall == [f |-> "none", a |-> NoArgs]

NoSnapshot == [plugged |-> FALSE, dma |-> FALSE, reset |-> FALSE, sleep |-> FALSE,
               held |-> {}, timed |-> {}, cs |-> 1]

\* The observation of a top-level call (op, pre, result, buffer, log) is kept while
\* the call runs and in the state in which it has just returned; the observation of
\* a Completion Handoff (done) is kept in the state in which it has just finished.
\* A step of another context taken while the call context is idle drops the first,
\* every later step drops the second.
ForgetCall ==
    IF cont = << >>
    THEN /\ op' = NoCall
         /\ pre' = NoSnapshot
         /\ result' = 0
         /\ buffer' = 0
         /\ log' = << >>
    ELSE UNCHANGED << op, pre, result, buffer, log >>

ForgetHandoff == done' = NoTransfer

-----------------------------------------------------------------------------
(* Initial state: static storage before main() runs                        *)

\* the controller after power-on: no register addressed, MADCTL at its default
PowerOnPanel == [sel |-> "none", madctl |-> 0]

Init ==
    /\ main_pc = "boot"
    /\ is_plugged = FALSE
    /\ dma_data_channel = -1
    /\ claimed = {}
    /\ dma_operation_completion_signal = NULL
    /\ dma_operation_close_comm = FALSE
    /\ mutex = [m \in MutexNames |-> 0]
    /\ cs = 0
    /\ dc = 0
    /\ dma_busy = FALSE
    /\ irq0_status = FALSE
    /\ irq_pc = "idle"
    /\ alarms = << >>
    /\ cont = << >>
    /\ op = NoCall
    /\ pre = NoSnapshot
    /\ result = 0
    /\ buffer = 0
    /\ log = << >>
    /\ xfers = << >>
    /\ done = NoTransfer
    /\ panel = PowerOnPanel

-----------------------------------------------------------------------------
(* The call context                                                        *)

RECURSIVE SkipRets(_)
\* the statements left once the functions that have nothing more to do have returned
SkipRets(s) ==
    IF Len(s) > 0 /\ Head(s).i = "ret" THEN SkipRets(Tail(s)) ELSE s

RECURSIVE LastRet(_, _)
\* the value of the last of these returns (r when no function returns)
LastRet(s, r) ==
    IF Len(s) > 0 /\ Head(s).i = "ret"
    THEN LastRet(Tail(s), RetConv(Head(s).t, IF Head(s).src = "buffer" THEN buffer
                                              ELSE Head(s).v))
    ELSE r

\* a statement is done: go on with `rest`, returning from the functions that end here
Resume(rest, r) ==
    /\ cont' = SkipRets(rest)
    /\ result' = LastRet(rest, r)

RECURSIVE DropFrame(_)
\* an early return: skip the rest of the innermost function
DropFrame(s) ==
    IF Len(s) = 0 THEN << >>
    ELSE IF Head(s).i = "ret" THEN Tail(s)
    ELSE DropFrame(Tail(s))

\* the calls the application makes on the driver
AppCalls ==
    { [f |-> f, a |-> NoArgs] :
        f \in { "st7789v_begin_comm", "st7789v_end_comm", "st7789v_sync_dma_operation",
                "st7789v_display_no_operation", "st7789v_display_read_id",
                "st7789v_display_read_power_mode" } }
    \cup { [f |-> "st7789v_write_sync", a |-> [NoArgs EXCEPT !.bytes = << 170 >>]],
           [f |-> "st7789v_read_sync", a |-> [NoArgs EXCEPT !.n = 1]],
           [f |-> "st7789v_send_command_sync",
            a |-> [NoArgs EXCEPT !.cmd = COMMAND_NO_OPERATION]],
           [f |-> "st7789v_send_command_sync",
            a |-> [NoArgs EXCEPT !.cmd = COMMAND_COLUMN_ADDRESS_SET,
                                 !.bytes = << 0, 0, 0, 239 >>]],
           [f |-> "st7789v_display_set_column_address_window",
            a |-> [NoArgs EXCEPT !.w = << 0, 239 >>]] }
    \cup { [f |-> "st7789v_dma_write", a |-> [NoArgs EXCEPT !.sig = s, !.close = c]] :
             s \in Semaphores \cup {NULL}, c \in BOOLEAN }
    \cup { [f |-> "st7789v_display_memory_write_async", a |-> [NoArgs EXCEPT !.sig = s]] :
             s \in Semaphores \cup {NULL} }
    \cup { [f |-> f, a |-> [NoArgs EXCEPT !.sync = y]] :
             f \in { "st7789v_display_software_reset", "st7789v_display_sleep_in",
                     "st7789v_display_sleep_out" },
             y \in BOOLEAN }

I == Head(cont)

CallerAt(i) == Len(cont) > 0 /\ I.i = i

\* main(): st7789v_init() is the first driver call
MainInit ==
    /\ main_pc = "boot"
    /\ main_pc' = "app"
    /\ op' = [f |-> "st7789v_init", a |-> NoArgs]
    /\ pre' = Snapshot
    /\ Resume(Enter("st7789v_init", NoArgs, << >>), 0)
    /\ buffer' = 0
    /\ log' = << >>
    /\ ForgetHandoff
    /\ UNCHANGED << panel, claimed, is_plugged,
                    dma_data_channel, dma_operation_completion_signal,
                    dma_operation_close_comm, mutex, cs, dc, dma_busy, irq0_status, irq_pc,
                    alarms, xfers >>

\* the application calls a driver function; its entry checks run at once
Call(c) ==
    /\ main_pc = "app"
    /\ cont = << >>
    /\ op' = c
    /\ pre' = Snapshot
    /\ Resume(Enter(c.f, c.a, << >>),
              IF EntryCheck(c.f) = "enter" THEN 0 ELSE EntryValue(c.f))
    /\ buffer' = 0
    /\ log' = << >>
    /\ ForgetHandoff
    /\ UNCHANGED << panel, claimed, main_pc, is_plugged,
                    dma_data_channel, dma_operation_completion_signal,
                    dma_operation_close_comm, mutex, cs, dc, dma_busy, irq0_status, irq_pc,
                    alarms, xfers >>

\* a driver function calls another one (the return value is never looked at)
ExecCall ==
    /\ CallerAt("call")
    /\ Resume(Enter(I.f, I.a, Tail(cont)), EnterResult(I.f))
    /\ ForgetHandoff
    /\ UNCHANGED << panel, claimed, main_pc, is_plugged,
                    dma_data_channel, dma_operation_completion_signal,
                    dma_operation_close_comm, mutex, cs, dc, dma_busy, irq0_status, irq_pc,
                    alarms, op, pre, buffer, log, xfers >>

\* mutex_enter_blocking: proceeds only once the mutex has no owner
ExecLock ==
    /\ CallerAt("lock")
    /\ mutex[I.m] = LOCK_INVALID_OWNER_ID
    /\ mutex' = [mutex EXCEPT ![I.m] = CallerOwnerId]
    /\ log' = Append(log, Ev("lock", I.m, 0, << >>))
    /\ Resume(Tail(cont), result)
    /\ ForgetHandoff
    /\ UNCHANGED << panel, claimed, main_pc, is_plugged,
                    dma_data_channel, dma_operation_completion_signal,
                    dma_operation_close_comm, cs, dc, dma_busy, irq0_status, irq_pc,
                    alarms, op, pre, buffer, xfers >>

\* mutex_exit
ExecUnlock ==
    /\ CallerAt("unlock")
    /\ mutex' = [mutex EXCEPT ![I.m] = LOCK_INVALID_OWNER_ID]
    /\ log' = Append(log, Ev("unlock", I.m, 0, << >>))
    /\ Resume(Tail(cont), result)
    /\ ForgetHandoff
    /\ UNCHANGED << panel, claimed, main_pc, is_plugged,
                    dma_data_channel, dma_operation_completion_signal,
                    dma_operation_close_comm, cs, dc, dma_busy, irq0_status, irq_pc,
                    alarms, op, pre, buffer, xfers >>

\* gpio_put(ST7789V_PIN_CS, v)
ExecCs ==
    /\ CallerAt("cs")
    /\ cs' = I.v
    /\ log' = Append(log, Ev("cs", "", I.v, << >>))
    /\ Resume(Tail(cont), result)
    /\ ForgetHandoff
    /\ UNCHANGED << panel, claimed, main_pc, is_plugged,
                    dma_data_channel, dma_operation_completion_signal,
                    dma_operation_close_comm, mutex, dc, dma_busy, irq0_status, irq_pc,
                    alarms, op, pre, buffer, xfers >>

\* gpio_put(ST7789V_PIN_DC, v)
ExecDc ==
    /\ CallerAt("dc")
    /\ dc' = I.v
    /\ log' = Append(log, Ev("dc", "", I.v, << >>))
    /\ Resume(Tail(cont), result)
    /\ ForgetHandoff
    /\ UNCHANGED << panel, claimed, main_pc, is_plugged,
                    dma_data_channel, dma_operation_completion_signal,
                    dma_operation_close_comm, mutex, cs, dma_busy, irq0_status, irq_pc,
                    alarms, op, pre, buffer, xfers >>

\* the register of the controller an opcode addresses, as far as the model keeps it
PanelSelect(c) ==
    CASE c = COMMAND_MEMORY_ACCESS_CONTROL              -> "MADCTL"
      [] c = COMMAND_READ_DISPLAY_MEMORY_ACCESS_CONTROL -> "RDDMADCTL"
      [] OTHER                                          -> "none"

\* The controller listening to a buffer clocked out by the driver.  It listens only
\* while chip-select is low; a byte sent with the data/command line low is an opcode
\* (a software reset puts MADCTL back to its default), a byte sent with the line high
\* is the parameter of the opcode before it and is stored when that opcode was MADCTL.
PanelWrite(b) ==
    IF cs # 0 \/ Len(b) = 0 THEN panel
    ELSE IF dc = 0
         THEN [sel    |-> PanelSelect(b[1]),
               madctl |-> IF b[1] = COMMAND_SOFTWARE_RESET THEN 0 ELSE panel.madctl]
    ELSE IF panel.sel = "MADCTL"
         THEN [sel |-> "none", madctl |-> b[1]]
    ELSE panel

\* spi_set_baudrate + spi_write_blocking
ExecSpiWrite ==
    /\ CallerAt("spi_write")
    /\ panel' = PanelWrite(I.bytes)
    /\ log' = Append(log, Ev("write", "", Len(I.bytes), I.bytes))
    /\ Resume(Tail(cont), result)
    /\ ForgetHandoff
    /\ UNCHANGED << claimed, main_pc, is_plugged,
                    dma_data_channel, dma_operation_completion_signal,
                    dma_operation_close_comm, mutex, cs, dc, dma_busy, irq0_status, irq_pc,
                    alarms, op, pre, buffer, xfers >>

\* what the controller may answer to a read of n bytes (big-endian value)
ReadValues(n) ==
    CASE n = 3 -> { ST7789V_DISPLAY_ID, 0 }
      [] n = 2 -> { 0, 65535 }
      [] OTHER -> { 0, 254 }

\* what a read of n bytes yields: the MADCTL register when the controller was asked
\* for it within the transaction, what the bus happens to carry otherwise
PanelRead(n) ==
    IF cs = 0 /\ n = 1 /\ panel.sel = "RDDMADCTL" THEN { panel.madctl } ELSE ReadValues(n)

\* spi_set_baudrate + spi_read_blocking
ExecSpiRead ==
    /\ CallerAt("spi_read")
    /\ \E v \in PanelRead(I.n) : buffer' = v
    /\ log' = Append(log, Ev("read", "", I.n, << >>))
    /\ Resume(Tail(cont), result)
    /\ ForgetHandoff
    /\ UNCHANGED << panel, claimed, main_pc, is_plugged,
                    dma_data_channel, dma_operation_completion_signal,
                    dma_operation_close_comm, mutex, cs, dc, dma_busy, irq0_status, irq_pc,
                    alarms, op, pre, xfers >>

\* what st7789v_dummy_cycle does on the clock pin when no DMA is in flight: the pin
\* is handed to software, driven high and low, and handed back to the SPI
DummyCycleEvents ==
    << Ev("sck_function", "GPIO_FUNC_SIO", 0, << >>),
       Ev("pulse", "", 1, << >>),
       Ev("sck_function", "GPIO_FUNC_SPI", 0, << >>) >>

\* st7789v_dummy_cycle
ExecDummy ==
    /\ CallerAt("dummy_cycle")
    /\ log' = IF dma_busy THEN log ELSE log \o DummyCycleEvents
    /\ Resume(Tail(cont), result)
    /\ ForgetHandoff
    /\ UNCHANGED << panel, claimed, main_pc, is_plugged,
                    dma_data_channel, dma_operation_completion_signal,
                    dma_operation_close_comm, mutex, cs, dc, dma_busy, irq0_status, irq_pc,
                    alarms, op, pre, buffer, xfers >>

\* st7789v_dma_write: remember the notification and the close flag
ExecStore ==
    /\ CallerAt("dma_store")
    /\ dma_operation_completion_signal' = I.sig
    /\ dma_operation_close_comm' = I.close
    /\ log' = Append(log, Ev("store", I.sig, 0, << >>))
    /\ Resume(Tail(cont), result)
    /\ ForgetHandoff
    /\ UNCHANGED << panel, claimed, main_pc, is_plugged,
                    dma_data_channel, mutex, cs, dc, dma_busy,
                    irq0_status, irq_pc, alarms, op, pre, buffer, xfers >>

\* st7789v_dma_write: dma_channel_configure(..., trigger = true)
ExecTrigger ==
    /\ CallerAt("dma_trigger")
    /\ dma_busy' = TRUE
    /\ xfers' = Append(xfers, [sig |-> I.sig, close |-> I.close, closed |-> FALSE,
                                released |-> 0])
    /\ log' = Append(log, Ev("trigger", I.sig, 0, << >>))
    /\ Resume(Tail(cont), result)
    /\ ForgetHandoff
    /\ UNCHANGED << panel, claimed, main_pc, is_plugged,
                    dma_data_channel, dma_operation_completion_signal,
                    dma_operation_close_comm, mutex, cs, dc, irq0_status, irq_pc, alarms,
                    op, pre, buffer >>

\* dma_channel_wait_for_finish_blocking, then the wait for the SPI to drain
ExecWaitDma ==
    /\ CallerAt("dma_wait")
    /\ ~dma_busy
    /\ Resume(Tail(cont), result)
    /\ ForgetHandoff
    /\ UNCHANGED << panel, claimed, main_pc, is_plugged,
                    dma_data_channel, dma_operation_completion_signal,
                    dma_operation_close_comm, mutex, cs, dc, dma_busy, irq0_status, irq_pc,
                    alarms, op, pre, buffer, log, xfers >>

\* add_alarm_in_ms(ms, unlock_mutex_alarm_callback, &m, true)
ExecAlarm ==
    /\ CallerAt("add_alarm")
    /\ alarms' = Append(alarms, [m |-> I.m, ms |-> I.ms])
    /\ log' = Append(log, Ev("alarm", I.m, I.ms, << >>))
    /\ Resume(Tail(cont), result)
    /\ ForgetHandoff
    /\ UNCHANGED << panel, claimed, main_pc, is_plugged,
                    dma_data_channel, dma_operation_completion_signal,
                    dma_operation_close_comm, mutex, cs, dc, dma_busy, irq0_status, irq_pc,
                    op, pre, buffer, xfers >>

\* an alarm is due once every alarm scheduled before it with a delay no longer
\* than its own has fired
Due(i) == \A j \in 1..(i - 1) : alarms[j].ms > alarms[i].ms

RemoveAt(s, i) == SubSeq(s, 1, i - 1) \o SubSeq(s, i + 1, Len(s))

\* sleep_ms(ms): the call context starts waiting
ExecSleepStart ==
    /\ CallerAt("sleep_start")
    /\ alarms' = Append(alarms, [m |-> "sleep_ms", ms |-> I.ms])
    /\ Resume(Tail(cont), result)
    /\ ForgetHandoff
    /\ UNCHANGED << panel, claimed, main_pc, is_plugged,
                    dma_data_channel, dma_operation_completion_signal,
                    dma_operation_close_comm, mutex, cs, dc, dma_busy, irq0_status, irq_pc,
                    op, pre, buffer, log, xfers >>

\* sleep_ms(ms): the delay has elapsed
ExecSleepWait ==
    /\ CallerAt("sleep_wait")
    /\ \E i \in 1..Len(alarms) :
         /\ alarms[i].m = "sleep_ms"
         /\ Due(i)
         /\ alarms' = RemoveAt(alarms, i)
    /\ Resume(Tail(cont), result)
    /\ ForgetHandoff
    /\ UNCHANGED << panel, claimed, main_pc, is_plugged,
                    dma_data_channel, dma_operation_completion_signal,
                    dma_operation_close_comm, mutex, cs, dc, dma_busy, irq0_status, irq_pc,
                    op, pre, buffer, log, xfers >>

-----------------------------------------------------------------------------
(* st7789v_init and st7789v_deinit                                         *)

\* dma_claim_unused_channel(false): a channel number, or -1 when none is free
\* what dma_claim_unused_channel(false) can return: the lowest channel nobody has
\* claimed, or -1 when the rest of the program holds every channel that is left
ClaimResults ==
    { -1 } \cup { ch \in Channels \ claimed : \A o \in Channels \ claimed : ch <= o }

ExecClaim ==
    /\ CallerAt("dma_claim")
    /\ \E ch \in ClaimResults :
         /\ dma_data_channel' = ch
         /\ claimed' = IF ch = -1 THEN claimed ELSE claimed \cup { ch }
         /\ IF ch = -1
            THEN Resume(DropFrame(cont), -ENODMAAVAILABLE)
            ELSE Resume(Tail(cont), result)
    /\ ForgetHandoff
    /\ UNCHANGED << panel, main_pc, is_plugged, dma_operation_completion_signal,
                    dma_operation_close_comm, mutex, cs, dc, dma_busy, irq0_status, irq_pc,
                    alarms, op, pre, buffer, log, xfers >>

\* mutex_init of the five locks, SPI and pin set-up, interrupt handler installed
ExecSetup ==
    /\ CallerAt("setup")
    /\ mutex' = [m \in MutexNames |-> LOCK_INVALID_OWNER_ID]
    /\ cs' = 1
    /\ dc' = 1
    /\ log' = Append(log, Ev("setup", "", 0, << >>))
    /\ Resume(Tail(cont), result)
    /\ ForgetHandoff
    /\ UNCHANGED << panel, claimed, main_pc, is_plugged,
                    dma_data_channel, dma_operation_completion_signal,
                    dma_operation_close_comm, dma_busy, irq0_status, irq_pc, alarms, op,
                    pre, buffer, xfers >>

\* is_plugged = v
ExecPlug ==
    /\ CallerAt("set_plugged")
    /\ is_plugged' = I.v
    /\ Resume(Tail(cont), result)
    /\ ForgetHandoff
    /\ UNCHANGED << panel, claimed, main_pc, dma_data_channel, dma_operation_completion_signal,
                    dma_operation_close_comm, mutex, cs, dc, dma_busy, irq0_status, irq_pc,
                    alarms, op, pre, buffer, log, xfers >>

\* if (display_id != ST7789V_DISPLAY_ID) return -ENODISPLAYCONNECTED
ExecCheckId ==
    /\ CallerAt("check_id")
    /\ IF result # ST7789V_DISPLAY_ID
       THEN Resume(DropFrame(cont), -ENODISPLAYCONNECTED)
       ELSE Resume(Tail(cont), result)
    /\ ForgetHandoff
    /\ UNCHANGED << panel, claimed, main_pc, is_plugged,
                    dma_data_channel, dma_operation_completion_signal,
                    dma_operation_close_comm, mutex, cs, dc, dma_busy, irq0_status, irq_pc,
                    alarms, op, pre, buffer, log, xfers >>

\* the total the three scrolling areas have to add up to
ScrollTotal == 320

\* the sum as it would come out of 16-bit arithmetic
ScrollSum_Uint16(w) == (w[1] + w[2] + w[3]) % 65536

\* top_fixed_area + vertical_scrolling_area + bottom_fixed_area, in int
ScrollSum(w) == w[1] + w[2] + w[3]

\* if (sum != 320) return -ENOTINRANGE
ExecCheckSum ==
    /\ CallerAt("check_sum")
    /\ IF ScrollSum(I.w) # ScrollTotal
       THEN Resume(DropFrame(cont), -ENOTINRANGE)
       ELSE Resume(Tail(cont), result)
    /\ ForgetHandoff
    /\ UNCHANGED << panel, claimed, main_pc, is_plugged,
                    dma_data_channel,
                    dma_operation_completion_signal, dma_operation_close_comm, mutex, cs,
                    dc, dma_busy, irq0_status, irq_pc, alarms, op, pre, buffer, log, xfers >>

HandlerRunning == irq_pc \in { "exit_busy", "close", "signal" }

\* main(): st7789v_deinit() once the application is over, then the CPU halts
MainDeinit ==
    /\ main_pc = "app"
    /\ cont = << >>
    /\ main_pc' = "halt"
    /\ op' = [f |-> "st7789v_deinit", a |-> NoArgs]
    /\ pre' = Snapshot
    /\ result' = 0
    /\ log' = << >>
    /\ IF dma_data_channel >= 0
       THEN /\ dma_data_channel' = -1
            /\ claimed' = claimed \ { dma_data_channel }
            /\ dma_busy' = FALSE
            /\ irq0_status' = FALSE
            /\ xfers' = IF HandlerRunning THEN << Head(xfers) >> ELSE << >>
       ELSE UNCHANGED << dma_data_channel, claimed, dma_busy, irq0_status, xfers >>
    /\ ForgetHandoff
    /\ UNCHANGED << panel, is_plugged, dma_operation_completion_signal,
                    dma_operation_close_comm, mutex, cs, dc, irq_pc, alarms, cont, buffer >>

-----------------------------------------------------------------------------
(* The DMA engine and the Completion Handoff                               *)

\* the channel finishes its transfer and raises its interrupt
DmaComplete ==
    /\ dma_busy
    /\ dma_busy' = FALSE
    /\ irq0_status' = TRUE
    /\ ForgetCall
    /\ ForgetHandoff
    /\ UNCHANGED << panel, claimed, main_pc, is_plugged,
                    dma_data_channel, dma_operation_completion_signal,
                    dma_operation_close_comm, mutex, cs, dc, irq_pc, alarms, cont, xfers >>

\* the handler is installed from the set-up in st7789v_init until st7789v_deinit
HandlerInstalled ==
    /\ dma_data_channel >= 0
    /\ main_pc = "app"
    /\ ~CallerAt("setup")

\* st7789v_dma_irq_handler entered for the owned channel: status check, acknowledge
IrqEntry ==
    /\ irq_pc = "idle"
    /\ HandlerInstalled
    /\ irq0_status
    /\ irq0_status' = FALSE
    /\ irq_pc' = "exit_busy"
    /\ ForgetCall
    /\ ForgetHandoff
    /\ UNCHANGED << panel, claimed, main_pc, is_plugged,
                    dma_data_channel, dma_operation_completion_signal,
                    dma_operation_close_comm, mutex, cs, dc, dma_busy, alarms, cont, xfers >>

\* the handler going on to its body without looking at the channel's status
IrqForeign_NoStatusCheck ==
    /\ irq_pc = "idle"
    /\ HandlerInstalled
    /\ ~irq0_status
    /\ irq_pc' = "exit_busy"
    /\ ForgetCall
    /\ ForgetHandoff
    /\ UNCHANGED << panel, claimed, main_pc, is_plugged,
                    dma_data_channel,
                    dma_operation_completion_signal, dma_operation_close_comm, mutex,
                    cs, dc, dma_busy, irq0_status, alarms, cont, xfers >>

\* st7789v_dma_irq_handler entered by another channel's interrupt:
\* "irq0 received from unknown channel" is logged and the handler returns
IrqForeign ==
    /\ irq_pc = "idle"
    /\ HandlerInstalled
    /\ ~irq0_status
    /\ ForgetCall
    /\ ForgetHandoff
    /\ UNCHANGED << panel, claimed, main_pc, is_plugged,
                    dma_data_channel,
                    dma_operation_completion_signal, dma_operation_close_comm, mutex,
                    cs, dc, dma_busy, irq0_status, irq_pc, alarms, cont, xfers >>

\* the data-register read and mutex_exit(&busy_lock)
IrqExitBusy ==
    /\ irq_pc = "exit_busy"
    /\ mutex' = [mutex EXCEPT !["busy_lock"] = LOCK_INVALID_OWNER_ID]
    /\ xfers' = IF Len(xfers) > 0
                THEN [xfers EXCEPT ![1].released = @ + 1]
                ELSE xfers
    /\ irq_pc' = "close"
    /\ ForgetCall
    /\ ForgetHandoff
    /\ UNCHANGED << panel, claimed, main_pc, is_plugged,
                    dma_data_channel, dma_operation_completion_signal,
                    dma_operation_close_comm, cs, dc, dma_busy, irq0_status, alarms, cont >>

\* if (dma_operation_close_comm) st7789v_end_comm()
IrqCloseComm ==
    /\ irq_pc = "close"
    /\ IF dma_operation_close_comm /\ is_plugged
       THEN /\ cs' = 1
            /\ mutex' = [mutex EXCEPT !["communication_lock"] = LOCK_INVALID_OWNER_ID]
            /\ xfers' = IF Len(xfers) > 0
                        THEN [xfers EXCEPT ![1].closed = TRUE]
                        ELSE xfers
       ELSE UNCHANGED << cs, mutex, xfers >>
    /\ irq_pc' = "signal"
    /\ ForgetCall
    /\ ForgetHandoff
    /\ UNCHANGED << panel, claimed, main_pc, is_plugged,
                    dma_data_channel, dma_operation_completion_signal,
                    dma_operation_close_comm, dc, dma_busy, irq0_status, alarms, cont >>

\* if (signal != NULL) { sem_release(signal); signal = NULL; } and return
IrqSignal ==
    /\ irq_pc = "signal"
    /\ dma_operation_completion_signal' = NULL
    /\ done' = IF Len(xfers) > 0
               THEN [ sig       |-> Head(xfers).sig,
                      close     |-> Head(xfers).close,
                      signalled |-> dma_operation_completion_signal,
                      closed    |-> Head(xfers).closed,
                      released  |-> Head(xfers).released ]
               ELSE NoTransfer
    /\ xfers' = IF Len(xfers) > 0 THEN Tail(xfers) ELSE xfers
    /\ irq_pc' = "idle"
    /\ ForgetCall
    /\ UNCHANGED << panel, claimed, main_pc, is_plugged,
                    dma_data_channel, dma_operation_close_comm, mutex,
                    cs, dc, dma_busy, irq0_status, alarms, cont >>

-----------------------------------------------------------------------------
(* The alarm pool                                                          *)

\* The statements of the call context take no time next to the millisecond delays:
\* a delay can only run out while the call context is idle, waits (for a mutex, for
\* the DMA channel, in sleep_ms) or is clocking a buffer over the bus.
CallerWaits ==
    \/ cont = << >>
    \/ CallerAt("lock") /\ mutex[I.m] # LOCK_INVALID_OWNER_ID
    \/ CallerAt("dma_wait") /\ dma_busy
    \/ CallerAt("sleep_wait")
    \/ CallerAt("spi_write")
    \/ CallerAt("spi_read")

\* unlock_mutex_alarm_callback(alarm_id, &m): mutex_exit(m)
AlarmFire(i) ==
    /\ alarms[i].m # "sleep_ms"
    /\ Due(i)
    /\ CallerWaits
    /\ mutex' = [mutex EXCEPT ![alarms[i].m] = LOCK_INVALID_OWNER_ID]
    /\ alarms' = RemoveAt(alarms, i)
    /\ ForgetCall
    /\ ForgetHandoff
    /\ UNCHANGED << panel, claimed, main_pc, is_plugged,
                    dma_data_channel, dma_operation_completion_signal,
                    dma_operation_close_comm, cs, dc, dma_busy, irq0_status, irq_pc, cont,
                    xfers >>

-----------------------------------------------------------------------------
(* The program                                                             *)

Next ==
    \/ MainInit
    \/ \E c \in AppCalls : Call(c)
    \/ ExecCall
    \/ ExecLock
    \/ ExecUnlock
    \/ ExecCs
    \/ ExecDc
    \/ ExecSpiWrite
    \/ ExecSpiRead
    \/ ExecDummy
    \/ ExecStore
    \/ ExecTrigger
    \/ ExecWaitDma
    \/ ExecAlarm
    \/ ExecSleepStart
    \/ ExecSleepWait
    \/ ExecClaim
    \/ ExecSetup
    \/ ExecPlug
    \/ ExecCheckId
    \/ MainDeinit
    \/ DmaComplete
    \/ IrqEntry
    \/ IrqForeign
    \/ IrqExitBusy
    \/ IrqCloseComm
    \/ IrqSignal
    \/ \E i \in 1..Len(alarms) : AlarmFire(i)

Spec == Init /\ [][Next]_vars

-----------------------------------------------------------------------------
(* The program calling the functions that take 16-bit arguments            *)

\* 16-bit values around the limits of the panel and of the type
WindowWords == { 0, 5, 239, 240, 320, 321 }

ScrollWords == { 0, 1, 319, 320, 321, 65535 }

WindowCalls ==
    { [f |-> f, a |-> [NoArgs EXCEPT !.w = << x, y >>]] :
        f \in { "st7789v_display_set_column_address_window",
                "st7789v_display_set_row_address_window" },
        x \in WindowWords, y \in WindowWords }
    \cup { [f |-> "st7789v_display_set_vertical_scrolling_parameters",
            a |-> [NoArgs EXCEPT !.w = << x, y, z >>]] :
             x \in ScrollWords, y \in ScrollWords, z \in ScrollWords }

WindowNext ==
    \/ MainInit
    \/ \E c \in WindowCalls : Call(c)
    \/ ExecCall
    \/ ExecLock
    \/ ExecUnlock
    \/ ExecCs
    \/ ExecDc
    \/ ExecSpiWrite
    \/ ExecSpiRead
    \/ ExecDummy
    \/ ExecAlarm
    \/ ExecSleepStart
    \/ ExecSleepWait
    \/ ExecClaim
    \/ ExecSetup
    \/ ExecPlug
    \/ ExecCheckId
    \/ ExecCheckSum
    \/ MainDeinit
    \/ \E i \in 1..Len(alarms) : AlarmFire(i)

SpecWindow == Init /\ [][WindowNext]_vars

-----------------------------------------------------------------------------
(* A program that initialises and de-initialises the driver repeatedly     *)

\* alarms that may be pending when st7789v_init is called again
MaxPendingAlarms == 2

LifeCalls ==
    { [f |-> f, a |-> NoArgs] :
        f \in { "st7789v_display_no_operation", "st7789v_end_comm",
                "st7789v_sync_dma_operation" } }

\* st7789v_init() called again, after a bring-up or after st7789v_deinit()
LifeInit ==
    /\ main_pc \in { "app", "halt" }
    /\ cont = << >>
    /\ Len(alarms) < MaxPendingAlarms
    /\ main_pc' = "app"
    /\ op' = [f |-> "st7789v_init", a |-> NoArgs]
    /\ pre' = Snapshot
    /\ Resume(Enter("st7789v_init", NoArgs, << >>), 0)
    /\ buffer' = 0
    /\ log' = << >>
    /\ ForgetHandoff
    /\ UNCHANGED << panel, claimed, is_plugged,
                    dma_data_channel, dma_operation_completion_signal,
                    dma_operation_close_comm, mutex, cs, dc, dma_busy, irq0_status, irq_pc,
                    alarms, xfers >>

\* a driver function called after st7789v_deinit()
LifeCall(c) ==
    /\ main_pc = "halt"
    /\ cont = << >>
    /\ op' = c
    /\ pre' = Snapshot
    /\ Resume(Enter(c.f, c.a, << >>),
              IF EntryCheck(c.f) = "enter" THEN 0 ELSE EntryValue(c.f))
    /\ buffer' = 0
    /\ log' = << >>
    /\ ForgetHandoff
    /\ UNCHANGED << panel, claimed, main_pc, is_plugged,
                    dma_data_channel,
                    dma_operation_completion_signal, dma_operation_close_comm, mutex, cs,
                    dc, dma_busy, irq0_status, irq_pc, alarms, xfers >>

LifeNext ==
    \/ MainInit
    \/ LifeInit
    \/ \E c \in LifeCalls : Call(c)
    \/ \E c \in LifeCalls : LifeCall(c)
    \/ ExecCall
    \/ ExecLock
    \/ ExecUnlock
    \/ ExecCs
    \/ ExecDc
    \/ ExecSpiWrite
    \/ ExecSpiRead
    \/ ExecDummy
    \/ ExecAlarm
    \/ ExecSleepStart
    \/ ExecSleepWait
    \/ ExecClaim
    \/ ExecSetup
    \/ ExecPlug
    \/ ExecCheckId
    \/ MainDeinit
    \/ \E i \in 1..Len(alarms) : AlarmFire(i)

SpecLife == Init /\ [][LifeNext]_vars

-----------------------------------------------------------------------------
(* The program writing and reading the registers of the controller         *)

\* the flags of st7789v_memory_access_control_t: bit 2 upwards, bits 0 and 1 unnamed
MadctlBits ==
    [ horizontal_order_rtl     |-> 4,
      bgr_pixels               |-> 8,
      scan_address_increment   |-> 16,
      row_column_exchange      |-> 32,
      column_address_decrement |-> 64,
      row_address_decrement    |-> 128 ]

MadctlFields == DOMAIN MadctlBits

RECURSIVE SumBits(_)
SumBits(s) ==
    IF s = {} THEN 0
    ELSE LET x == CHOOSE y \in s : TRUE IN MadctlBits[x] + SumBits(s \ { x })

\* raw_value of the union when the flags in `set` are true and the others false
MadctlRawValue(set) == SumBits(set)

\* the flags of the union that read true when raw_value is b
MadctlFlags(b) == { x \in MadctlFields : (b \div MadctlBits[x]) % 2 = 1 }

\* the flag settings the application writes
FlagChoices == { {}, { "row_column_exchange" },
                 { "row_column_exchange", "row_address_decrement", "bgr_pixels" } }

\* the raw bytes the application writes: those flag settings, and bytes with the
\* unnamed bits set
RegisterBytes == { MadctlRawValue(fl) : fl \in FlagChoices } \cup { 254, 255 }

\* what the uninitialised local of st7789v_display_get_ctrl_register may hold
UninitialisedBytes == { 0, 165, 255 }

\* the curves of st7789v_gamma_curve_t and a value outside the enumeration
GammaCurves ==
    { GAMMA_CURVE_2_DOT_2, GAMMA_CURVE_1_DOT_8, GAMMA_CURVE_2_DOT_5,
      GAMMA_CURVE_1_DOT_0, 0 }

RegisterCalls ==
    { [f |-> f, a |-> NoArgs] :
        f \in { "st7789v_display_read_memory_access_control",
                "st7789v_display_read_power_mode",
                "st7789v_display_get_display_brightness",
                "st7789v_display_get_scanline",
                "st7789v_display_read_status",
                "st7789v_display_read_id" } }
    \cup { [f |-> "st7789v_display_get_ctrl_register",
            a |-> [NoArgs EXCEPT !.bytes = << v >>]] : v \in UninitialisedBytes }
    \cup { [f |-> "st7789v_display_set_gamma_correction_curve",
            a |-> [NoArgs EXCEPT !.n = g]] : g \in GammaCurves }
    \cup { [f |-> "st7789v_display_set_memory_access_control",
            a |-> [NoArgs EXCEPT !.bytes = << b >>]] : b \in RegisterBytes }
    \cup { [f |-> "st7789v_display_sleep_in", a |-> NoArgs] }

RegisterNext ==
    \/ MainInit
    \/ \E c \in RegisterCalls : Call(c)
    \/ ExecCall
    \/ ExecLock
    \/ ExecUnlock
    \/ ExecCs
    \/ ExecDc
    \/ ExecSpiWrite
    \/ ExecSpiRead
    \/ ExecDummy
    \/ ExecAlarm
    \/ ExecSleepStart
    \/ ExecSleepWait
    \/ ExecClaim
    \/ ExecSetup
    \/ ExecPlug
    \/ ExecCheckId
    \/ MainDeinit
    \/ \E i \in 1..Len(alarms) : AlarmFire(i)

SpecRegister == Init /\ [][RegisterNext]_vars

-----------------------------------------------------------------------------
(* The program driving the timed windows: reset and sleep transitions      *)

TimedCalls ==
    { [f |-> f, a |-> [NoArgs EXCEPT !.sync = y]] :
        f \in { "st7789v_display_software_reset", "st7789v_display_sleep_in",
                "st7789v_display_sleep_out" },
        y \in BOOLEAN }
    \cup { [f |-> "st7789v_display_no_operation", a |-> NoArgs] }

\* a statement of the call context
CallerStep ==
    \/ ExecCall
    \/ ExecLock
    \/ ExecUnlock
    \/ ExecCs
    \/ ExecDc
    \/ ExecSpiWrite
    \/ ExecSpiRead
    \/ ExecDummy
    \/ ExecAlarm
    \/ ExecSleepStart
    \/ ExecSleepWait
    \/ ExecClaim
    \/ ExecSetup
    \/ ExecPlug
    \/ ExecCheckId

\* the alarm pool runs a callback
AlarmStep == \E i \in 1..Len(alarms) : AlarmFire(i)

TimedNext ==
    \/ MainInit
    \/ \E c \in TimedCalls : Call(c)
    \/ CallerStep
    \/ MainDeinit
    \/ AlarmStep

\* The call context goes on with a call it has begun, and a scheduled alarm fires:
\* the alarm interrupt pre-empts the call context, so no sequence of calls keeps an
\* alarm from firing.
SpecTimed ==
    /\ Init
    /\ [][TimedNext]_vars
    /\ WF_vars(CallerStep)
    /\ SF_vars(AlarmStep)

-----------------------------------------------------------------------------
(* The program driving DMA transfers                                       *)

DmaCalls ==
    { [f |-> f, a |-> NoArgs] :
        f \in { "st7789v_begin_comm", "st7789v_sync_dma_operation" } }
    \cup { [f |-> "st7789v_dma_write", a |-> [NoArgs EXCEPT !.sig = s, !.close = c]] :
             s \in Semaphores \cup {NULL}, c \in BOOLEAN }
    \cup { [f |-> "st7789v_display_memory_write_async", a |-> [NoArgs EXCEPT !.sig = s]] :
             s \in Semaphores \cup {NULL} }

\* a statement of the call context, those of st7789v_dma_write and of
\* st7789v_sync_dma_operation included
DmaCallerStep ==
    \/ CallerStep
    \/ ExecStore
    \/ ExecTrigger
    \/ ExecWaitDma

\* a statement of st7789v_dma_irq_handler entered for the owned channel
HandlerStep ==
    \/ IrqEntry
    \/ IrqExitBusy
    \/ IrqCloseComm
    \/ IrqSignal

DmaNext ==
    \/ MainInit
    \/ \E c \in DmaCalls : Call(c)
    \/ DmaCallerStep
    \/ MainDeinit
    \/ AlarmStep
    \/ DmaComplete
    \/ HandlerStep
    \/ IrqForeign

\* The call context goes on with a call it has begun, alarms fire, a triggered
\* transfer reaches its transfer count, and the interrupt it raises is served: the
\* handler is entered and runs to its end.
SpecDma ==
    /\ Init
    /\ [][DmaNext]_vars
    /\ WF_vars(DmaCallerStep)
    /\ SF_vars(AlarmStep)
    /\ WF_vars(DmaComplete)
    /\ WF_vars(HandlerStep)

-----------------------------------------------------------------------------
(* The program reading registers next to DMA transfers                     *)

ReadCalls ==
    { [f |-> f, a |-> NoArgs] :
        f \in { "st7789v_display_read_id", "st7789v_display_read_status",
                "st7789v_display_read_power_mode", "st7789v_display_get_scanline" } }
    \cup { [f |-> "st7789v_display_get_ctrl_register",
            a |-> [NoArgs EXCEPT !.bytes = << v >>]] : v \in UninitialisedBytes }
    \cup { [f |-> "st7789v_dma_write", a |-> NoArgs],
           [f |-> "st7789v_display_memory_write_async", a |-> NoArgs] }

ReadNext ==
    \/ MainInit
    \/ \E c \in ReadCalls : Call(c)
    \/ CallerStep
    \/ ExecStore
    \/ ExecTrigger
    \/ MainDeinit
    \/ AlarmStep
    \/ DmaComplete
    \/ HandlerStep

SpecRead == Init /\ [][ReadNext]_vars

-----------------------------------------------------------------------------
(* The program calling the top-level operations, one call after another    *)

\* the operations an application calls: display operations, the three transitions,
\* the asynchronous memory write and the wait for its completion
TopLevelCalls ==
    { [f |-> f, a |-> NoArgs] :
        f \in { "st7789v_display_no_operation", "st7789v_display_read_id",
                "st7789v_display_read_status", "st7789v_sync_dma_operation" } }
    \cup { [f |-> "st7789v_display_set_column_address_window",
            a |-> [NoArgs EXCEPT !.w = << 0, 239 >>]] }
    \cup { [f |-> "st7789v_display_memory_write_async", a |-> [NoArgs EXCEPT !.sig = s]] :
             s \in Semaphores \cup {NULL} }
    \cup { [f |-> f, a |-> [NoArgs EXCEPT !.sync = y]] :
             f \in { "st7789v_display_software_reset", "st7789v_display_sleep_in",
                     "st7789v_display_sleep_out" },
             y \in BOOLEAN }

TopLevelNext ==
    \/ MainInit
    \/ \E c \in TopLevelCalls : Call(c)
    \/ DmaCallerStep
    \/ AlarmStep
    \/ DmaComplete
    \/ HandlerStep
    \/ IrqForeign

\* The call context goes on with a call it has begun, the scheduled alarms fire, a
\* triggered transfer reaches its transfer count and the interrupt it raises is
\* served.
SpecTopLevel ==
    /\ Init
    /\ [][TopLevelNext]_vars
    /\ WF_vars(DmaCallerStep)
    /\ SF_vars(AlarmStep)
    /\ WF_vars(DmaComplete)
    /\ WF_vars(HandlerStep)

-----------------------------------------------------------------------------
(* Properties                                                              *)

\* a top-level call has just returned
Returned == cont = << >> /\ op.f \notin { "none", "st7789v_deinit" }

\* the functions that consult the three advisory predicates on entry
BusyChecked ==
    { c.f : c \in AppCalls } \ (PlugOnly \cup { "st7789v_sync_dma_operation" })

\* the error codes as a function of f's return type hands them back
NotConnected(f) == RetConv(RetType(f), -ENODISPLAYCONNECTED)
Busy(f) == RetConv(RetType(f), -EDISPLAYBUSY)

\* the call came back with Busy and did nothing: no mutex taken or released, no
\* line driven, no byte clocked, nothing stored or triggered, no alarm scheduled
Refused == result = Busy(op.f) /\ log = << >>

Writes(l) == SelectSeq(l, LAMBDA e : e.e = "write")

\* C1: every public operation other than init/deinit, called while is_plugged is
\* false, returns NotConnected and does nothing on the bus or on any lock.
C1_UnpluggedReturnsNotConnected ==
    (Returned /\ op.f # "st7789v_init" /\ ~pre.plugged)
        => (result = NotConnected(op.f) /\ log = << >>)

\* C2: a busy-checked operation called while plugged and while any of the three
\* advisory predicates holds returns Busy and does nothing; st7789v_dma_write
\* consults all three predicates like the others.
C2_BusyRefused ==
    (Returned /\ op.f \in BusyChecked /\ pre.plugged /\ (pre.dma \/ pre.reset \/ pre.sleep))
        => Refused

C2_Witness ==
    /\ Returned
    /\ op.f = "st7789v_dma_write"
    /\ pre.plugged /\ ~pre.dma /\ (pre.reset \/ pre.sleep)
    /\ Refused

\* the call context owns busy_lock: it sits between mutex_enter_blocking(&busy_lock)
\* and the statement that ends its ownership
CallerHoldsBusy ==
    \/ CallerAt("spi_write")
    \/ CallerAt("spi_read")
    \/ CallerAt("dma_trigger")
    \/ CallerAt("unlock") /\ I.m = "busy_lock"

\* the triggered transfers whose Completion Handoff has not released busy_lock yet
DmaHolders == { k \in DOMAIN xfers : xfers[k].released = 0 }

\* C3: busy_lock has at most one holder at a time (a synchronous transfer, or a DMA
\* transfer from its acquisition in st7789v_dma_write to the handler's release), the
\* mutex is owned whenever there is a holder, and no synchronous transfer drives the
\* bus while a DMA transfer holds the lock.
C3_BusyLockExclusive ==
    /\ Cardinality(DmaHolders) + (IF CallerHoldsBusy THEN 1 ELSE 0) <= 1
    /\ (CallerHoldsBusy \/ DmaHolders # {}) => mutex["busy_lock"] # LOCK_INVALID_OWNER_ID
    /\ (CallerAt("spi_write") \/ CallerAt("spi_read")) => DmaHolders = {}

C3_Witness ==
    /\ op.f = "st7789v_write_sync"
    /\ CallerAt("lock") /\ I.m = "busy_lock"
    /\ DmaHolders # {}

\* C4: the Completion Handoff of a triggered transfer releases busy_lock once and
\* signals the notification handle that transfer was started with: once when a
\* handle was supplied, not at all when none was.
C4_HandoffExactlyOnce ==
    done.released # 0 => (done.released = 1 /\ done.signalled = done.sig)

\* C5: when st7789v_display_software_reset(false) has returned success, reset busy
\* is reported at once; it stays reported for as long as the 5 ms alarm is pending;
\* and every command issued while that alarm is pending is refused with Busy.
C5_ResetBusyUntilShortTimer ==
    /\ (Returned /\ op.f = "st7789v_display_software_reset" /\ ~op.a.sync /\ result = 0)
           => (st7789v_is_reset_busy /\ "reset_lock" \in Scheduled)
    /\ "reset_lock" \in Scheduled => st7789v_is_reset_busy
    /\ (Returned /\ op.f \in BusyChecked /\ pre.plugged /\ "reset_lock" \in pre.timed)
           => Refused

C5_Witness ==
    /\ Returned
    /\ main_pc = "app"
    /\ op.f = "st7789v_display_no_operation"
    /\ pre.plugged /\ "reset_lock" \in pre.timed /\ ~pre.dma /\ ~pre.sleep
    /\ "reset_lock" \in Scheduled
    /\ Refused

ShortLocks == { "reset_lock", "sleep_lock" }

WindowLocks == ShortLocks \cup { "sleep_switch_state_lock" }

\* C6 as stated: while any lock of a window is held, the short-delay or the 120 ms
\* one, the window's predicate reports busy and every command issuance fails with
\* Busy.
C6_AnyWindowLockRefuses ==
    /\ Held \cap WindowLocks # {} => (st7789v_is_reset_busy \/ st7789v_is_sleep_busy)
    /\ (Returned /\ op.f \in BusyChecked /\ pre.plugged /\ pre.held \cap WindowLocks # {})
           => Refused

\* C6: while the short-delay lock of a window is held (reset_lock, sleep_lock) the
\* window's predicate reports busy and every command issuance fails with Busy;
\* the 120 ms lock is not consulted, so a command issued while no short-delay lock is
\* held and no DMA is in flight is not refused.
C6_ShortLockRefuses ==
    /\ st7789v_is_reset_busy <=> "reset_lock" \in Held
    /\ st7789v_is_sleep_busy <=> "sleep_lock" \in Held
    /\ (Returned /\ op.f \in BusyChecked /\ pre.plugged /\ pre.held \cap ShortLocks # {})
           => Refused
    /\ (Returned /\ op.f \in BusyChecked /\ pre.plugged /\ pre.held \cap ShortLocks = {}
            /\ ~pre.dma)
           => ~Refused

C6_Witness ==
    /\ Returned
    /\ op.f = "st7789v_display_no_operation"
    /\ pre.plugged /\ ~pre.dma
    /\ pre.held = { "sleep_lock", "sleep_switch_state_lock" }
    /\ Refused

Transitions == { "st7789v_display_software_reset", "st7789v_display_sleep_in",
                 "st7789v_display_sleep_out" }

\* the locks of the window transition f belongs to
LocksOfWindow(f) ==
    IF f = "st7789v_display_software_reset"
    THEN { "reset_lock", "sleep_switch_state_lock" }
    ELSE { "sleep_lock", "sleep_switch_state_lock" }

\* C7: a transition called while any lock of its window is held, the 120 ms lock
\* included, is refused with Busy, and its command byte is not written.
C7_TransitionRefusedWhileWindowLocked ==
    (op.f \in Transitions /\ pre.plugged /\ pre.held \cap LocksOfWindow(op.f) # {})
        => (Writes(log) = << >> /\ (cont = << >> => Refused))

\* C8: a software reset that returned success has written opcode 0x01 exactly once,
\* as a command byte inside an opened transaction, after taking the reset window's
\* locks.
C8_ResetWritesOpcodeOnce ==
    (Returned /\ op.f = "st7789v_display_software_reset" /\ result = 0)
        => \E k \in 1..Len(log) :
              /\ log[k].e = "write" /\ log[k].bytes = << COMMAND_SOFTWARE_RESET >>
              /\ log[k].dc = 0 /\ log[k].cs = 0
              /\ \A j \in 1..Len(log) :
                    (log[j].e = "write" /\ log[j].bytes = << COMMAND_SOFTWARE_RESET >>)
                        => j = k
              /\ \A m \in { "reset_lock", "sleep_switch_state_lock" } :
                    \E j \in 1..(k - 1) : log[j].e = "lock" /\ log[j].m = m

\* C9: when st7789v_sync_dma_operation returns success, the Completion Handoff of
\* every transfer triggered before has run to its end: busy_lock released, the
\* transaction closed where asked for, the notification signalled.
C9_WaitIsBarrier ==
    (Returned /\ op.f = "st7789v_sync_dma_operation" /\ pre.plugged /\ result = 0)
        => (xfers = << >> /\ irq_pc = "idle")

\* C10: st7789v_sync_dma_operation called while plugged and with no DMA in flight
\* returns success, changes nothing and takes no lock.
C10_WaitWithoutDmaIsNoOp ==
    (Returned /\ op.f = "st7789v_sync_dma_operation" /\ pre.plugged /\ ~pre.dma)
        => (result = 0 /\ log = << >>)

C10_Witness ==
    /\ Returned
    /\ op.f = "st7789v_sync_dma_operation"
    /\ pre.plugged /\ ~pre.dma
    /\ result = 0 /\ log = << >>

\* C11: st7789v_init finding no DMA channel returns NoResourceAvailable and has
\* configured nothing: no lock initialised, no pin, SPI or interrupt set up, and
\* is_plugged not set.
C11_NoChannelNoSetup ==
    (Returned /\ op.f = "st7789v_init" /\ dma_data_channel = -1)
        => /\ result = -ENODMAAVAILABLE
           /\ log = << >>
           /\ Held = pre.held
           /\ is_plugged = pre.plugged /\ ~is_plugged
           /\ alarms = << >>

C11_Witness ==
    /\ Returned
    /\ op.f = "st7789v_init"
    /\ dma_data_channel = -1
    /\ result = -ENODMAAVAILABLE
    /\ Held = MutexNames

\* the bring-up has failed on the identity read and st7789v_init has returned
BringUpFailed == main_pc = "app" /\ ~is_plugged /\ dma_data_channel >= 0

\* C12: when the identity read in st7789v_init yields another value than 0x858552,
\* st7789v_init returns NotConnected with is_plugged false although the reset
\* sequence ran, and every later operation returns NotConnected.
C12_MismatchLeavesUnplugged ==
    /\ (Returned /\ op.f = "st7789v_init" /\ dma_data_channel >= 0
            /\ buffer # ST7789V_DISPLAY_ID)
           => /\ result = -ENODISPLAYCONNECTED
              /\ ~is_plugged
              /\ \E k \in 1..Len(log) : log[k].e = "lock" /\ log[k].m = "reset_lock"
    /\ (Returned /\ op.f # "st7789v_init" /\ BringUpFailed)
           => result = NotConnected(op.f)

\* C13: st7789v_display_sleep_in(true) returns only when the 120 ms are over: both
\* sleep locks are free and their alarms gone, sleep busy is not reported, and a
\* st7789v_send_command_sync called next is not refused.
C13_SleepInSyncWaitsLongDelay ==
    (Returned /\ op.f = "st7789v_display_sleep_in" /\ op.a.sync /\ result = 0
        /\ log # << >>)
        => /\ ~st7789v_is_sleep_busy
           /\ Held \cap { "sleep_lock", "sleep_switch_state_lock" } = {}
           /\ Scheduled \cap { "sleep_lock", "sleep_switch_state_lock" } = {}
           /\ EntryCheck("st7789v_send_command_sync") = "enter"

C13_Witness ==
    /\ Returned
    /\ op.f = "st7789v_display_sleep_in" /\ op.a.sync /\ result = 0
    /\ \E k \in 1..Len(log) : log[k].e = "write" /\ log[k].bytes = << COMMAND_SLEEP_IN >>
    /\ \E k \in 1..Len(log) : log[k].e = "alarm" /\ log[k].v = LongDelayMs
    /\ EntryCheck("st7789v_send_command_sync") = "enter"

\* C14: st7789v_end_comm called while is_plugged is false returns NotConnected, not
\* success, and leaves chip-select and communication_lock as they are.
C14_EndCommUnpluggedFails ==
    (Returned /\ op.f = "st7789v_end_comm" /\ ~pre.plugged)
        => (result = -ENODISPLAYCONNECTED /\ log = << >>)

\* the call was made on a plugged display with no advisory predicate set
CalledIdle == pre.plugged /\ ~pre.dma /\ ~pre.reset /\ ~pre.sleep

\* the larger of the two documented limits of an address window
WindowLimit == 320

\* C15: setting the column or row address window with parameters outside
\* 0 <= start < end <= limit returns OutOfRange and writes nothing.  The parameters
\* looked at are out of bounds for either value of the row/column-exchange flag.
C15_WindowOutOfRangeRefused ==
    (Returned /\ CalledIdle
        /\ op.f \in { "st7789v_display_set_column_address_window",
                      "st7789v_display_set_row_address_window" }
        /\ ~(op.a.w[1] < op.a.w[2] /\ op.a.w[2] <= WindowLimit))
        => (result = -ENOTINRANGE /\ log = << >>)

\* the bus saw one command: the opcode c as a command byte, then the 16-bit values
\* w as big-endian data bytes
SentWords(c, w) ==
    /\ Len(Writes(log)) = 2
    /\ Writes(log)[1].bytes = << c >> /\ Writes(log)[1].dc = 0
    /\ Writes(log)[2].dc = 1
    /\ Len(Writes(log)[2].bytes) = 2 * Len(w)
    /\ \A k \in 1..Len(w) :
          Writes(log)[2].bytes[2 * k - 1] * ByteRange + Writes(log)[2].bytes[2 * k] = w[k]

C17_PluggedOnlyWhileBroughtUp ==
    /\ (cont = << >> /\ is_plugged) => main_pc = "app"
    /\ (Returned /\ op.f = "st7789v_init" /\ result # 0) => ~is_plugged

\* C18: over any sequence of st7789v_init and st7789v_deinit calls the driver owns at
\* most one claimed DMA channel at a time.
C18_AtMostOneChannel == Cardinality(claimed) <= 1

\* C19 as stated: st7789v_send_command_sync called on its own takes
\* communication_lock and asserts chip-select before its writes, and releases them
\* after.
C19_SendCommandOpensTransaction ==
    (Returned /\ CalledIdle /\ op.f = "st7789v_send_command_sync")
        => /\ \A k \in 1..Len(log) :
                 log[k].e = "write"
                     => /\ log[k].cs = 0
                        /\ \E j \in 1..(k - 1) :
                              log[j].e = "lock" /\ log[j].m = "communication_lock"
           /\ \E k \in 1..Len(log) : log[k].e = "unlock" /\ log[k].m = "communication_lock"

\* C19: st7789v_send_command_sync writes the one-byte opcode under command framing
\* and the parameter bytes, if any, under data framing, and returns success; it
\* neither opens nor closes a transaction: it does not touch chip-select or
\* communication_lock, which are the caller's to handle.
C19_SendCommandFramesOnly ==
    (Returned /\ CalledIdle /\ op.f = "st7789v_send_command_sync")
        => /\ result = 0
           /\ Writes(log)[1].bytes = << op.a.cmd >> /\ Writes(log)[1].dc = 0
           /\ IF Len(op.a.bytes) > 0
              THEN /\ Len(Writes(log)) = 2
                   /\ Writes(log)[2].bytes = op.a.bytes /\ Writes(log)[2].dc = 1
              ELSE Len(Writes(log)) = 1
           /\ \A k \in 1..Len(log) :
                 /\ log[k].e # "cs"
                 /\ log[k].m # "communication_lock"

C19_Witness ==
    /\ Returned /\ CalledIdle
    /\ op.f = "st7789v_send_command_sync"
    /\ op.a.cmd = COMMAND_COLUMN_ADDRESS_SET
    /\ "communication_lock" \notin pre.held
    /\ Len(Writes(log)) = 2
    /\ Writes(log)[1].cs = 1

\* the opcode a command function is there to write
Opcode(c) ==
    CASE c.f = "st7789v_display_no_operation"   -> COMMAND_NO_OPERATION
      [] c.f = "st7789v_display_software_reset" -> COMMAND_SOFTWARE_RESET
      [] c.f = "st7789v_display_sleep_in"       -> COMMAND_SLEEP_IN
      [] c.f = "st7789v_display_sleep_out"      -> COMMAND_SLEEP_OUT
      [] c.f = "st7789v_display_set_column_address_window" -> COMMAND_COLUMN_ADDRESS_SET
      [] c.f = "st7789v_display_memory_write_async" -> COMMAND_MEMORY_WRITE
      [] OTHER                                  -> c.a.cmd

CommandOps ==
    { "st7789v_display_no_operation", "st7789v_display_software_reset",
      "st7789v_display_sleep_in", "st7789v_display_sleep_out",
      "st7789v_display_set_column_address_window", "st7789v_display_memory_write_async",
      "st7789v_send_command_sync" }

\* C20: a public operation that returns success has performed its bus steps: a
\* command function has written its opcode as a command byte, a DMA write has
\* triggered the channel.
C20_NoSilentFailure ==
    /\ (Returned /\ op.f \in CommandOps /\ result = 0)
           => \E k \in 1..Len(log) :
                 log[k].e = "write" /\ log[k].bytes = << Opcode(op) >> /\ log[k].dc = 0
    /\ (Returned /\ result = 0
            /\ op.f \in { "st7789v_dma_write", "st7789v_display_memory_write_async" })
           => \E k \in 1..Len(log) : log[k].e = "trigger"

\* the register-read operations of the model
ReadOps ==
    { "st7789v_display_read_id", "st7789v_display_read_power_mode",
      "st7789v_display_read_memory_access_control",
      "st7789v_display_get_display_brightness", "st7789v_display_get_scanline" }

\* the call has clocked register data in from the bus
HasRead == \E k \in 1..Len(log) : log[k].e = "read"

\* C21: a register-read operation that is refused returns the negative error code
\* itself, not its value modulo 2^8 or 2^16, and a register-read operation that has
\* read the register returns a value that is neither of the two error returns of
\* that function.
C21_ErrorsDistinguishable ==
    /\ (Returned /\ op.f \in ReadOps /\ log = << >>)
           => result \in { -ENODISPLAYCONNECTED, -EDISPLAYBUSY }
    /\ (Returned /\ op.f \in ReadOps /\ HasRead)
           => result \notin { NotConnected(op.f), Busy(op.f) }

\* the register changes only by the parameter write of
\* st7789v_display_set_memory_access_control
MadctlWrittenOnlyBySet ==
    panel'.madctl # panel.madctl => op.f = "st7789v_display_set_memory_access_control"

\* C22: st7789v_display_set_memory_access_control called on a plugged, idle display
\* leaves its raw byte in the controller's MADCTL register; nothing else changes
\* that register; st7789v_display_read_memory_access_control called on a plugged,
\* idle display returns the byte the register holds.  The flags of the union are
\* the same before and after the round trip.
C22_MadctlRoundTrip ==
    /\ [](\A fl \in FlagChoices : MadctlFlags(MadctlRawValue(fl)) = fl)
    /\ []((Returned /\ CalledIdle /\ op.f = "st7789v_display_set_memory_access_control")
             => (result = 0 /\ panel.madctl = op.a.bytes[1]))
    /\ []((Returned /\ CalledIdle /\ op.f = "st7789v_display_read_memory_access_control")
             => (result = panel.madctl /\ MadctlFlags(result) = MadctlFlags(panel.madctl)))
    /\ [][MadctlWrittenOnlyBySet]_vars

C22_Witness ==
    /\ Returned /\ CalledIdle
    /\ op.f = "st7789v_display_read_memory_access_control"
    /\ MadctlFlags(result) = { "row_column_exchange" }
    /\ result = panel.madctl

\* the short-delay lock of the window transition f belongs to
ShortLockOf(f) ==
    IF f = "st7789v_display_software_reset" THEN "reset_lock" ELSE "sleep_lock"

\* the position in the log of the first event e on m, 0 when there is none
FirstEvent(e, m) ==
    IF \E k \in 1..Len(log) : log[k].e = e /\ log[k].m = m
    THEN CHOOSE k \in 1..Len(log) :
            /\ log[k].e = e /\ log[k].m = m
            /\ \A j \in 1..(k - 1) : ~(log[j].e = e /\ log[j].m = m)
    ELSE 0

\* the position in the log of the first byte written under command framing
FirstOpcode ==
    IF \E k \in 1..Len(log) : log[k].e = "write" /\ log[k].dc = 0
    THEN CHOOSE k \in 1..Len(log) :
            /\ log[k].e = "write" /\ log[k].dc = 0
            /\ \A j \in 1..(k - 1) : ~(log[j].e = "write" /\ log[j].dc = 0)
    ELSE 0

\* C23: a timed transition takes its short-delay lock, then the 120 ms lock, then
\* opens the transaction, writes its opcode, closes the transaction and schedules the
\* 5 ms and the 120 ms alarm, in this order; at no point of a transition has the
\* opcode been written without both window locks having been taken before.
C23_TransitionOrder ==
    /\ (Returned /\ CalledIdle /\ op.f \in Transitions /\ result = 0)
           => /\ 0 < FirstEvent("lock", ShortLockOf(op.f))
              /\ FirstEvent("lock", ShortLockOf(op.f))
                     < FirstEvent("lock", "sleep_switch_state_lock")
              /\ FirstEvent("lock", "sleep_switch_state_lock")
                     < FirstEvent("lock", "communication_lock")
              /\ FirstEvent("lock", "communication_lock") < FirstOpcode
              /\ FirstOpcode < FirstEvent("unlock", "communication_lock")
              /\ FirstEvent("unlock", "communication_lock")
                     < FirstEvent("alarm", ShortLockOf(op.f))
              /\ FirstEvent("alarm", ShortLockOf(op.f))
                     < FirstEvent("alarm", "sleep_switch_state_lock")
    /\ (op.f \in Transitions /\ FirstOpcode > 0)
           => \A m \in LocksOfWindow(op.f) :
                 0 < FirstEvent("lock", m) /\ FirstEvent("lock", m) < FirstOpcode

\* the call context is about to acquire m and m has an owner
BlockedOn(m) == CallerAt("lock") /\ I.m = m /\ mutex[m] # LOCK_INVALID_OWNER_ID

\* C24 as stated: a transition never finds a lock of its window owned when it comes
\* to acquire it.
C24_WindowLocksUncontended ==
    \A m \in WindowLocks : ~BlockedOn(m)

\* C24: a transition that has passed its advisory check finds its short-delay lock
\* free; the 120 ms lock may still be owned by a window that has not run out, and
\* the call context then waits in mutex_enter_blocking for the alarm that is
\* scheduled to release it.
C24_ShortLockUncontended ==
    /\ \A m \in ShortLocks : ~BlockedOn(m)
    /\ BlockedOn("sleep_switch_state_lock") => "sleep_switch_state_lock" \in Scheduled

C24_Witness ==
    /\ op.f = "st7789v_display_sleep_out"
    /\ BlockedOn("sleep_switch_state_lock")
    /\ "sleep_switch_state_lock" \in Scheduled
    /\ FirstOpcode > 0

SleepTransitions == { "st7789v_display_sleep_in", "st7789v_display_sleep_out" }

\* C25 as stated: a sleep transition called while no DMA is in flight and sleep_lock
\* is free is not refused, whatever the state of the reset window, and a software
\* reset called while no DMA is in flight and reset_lock is free is not refused,
\* whatever the state of the sleep window.
C25_WindowsIndependent ==
    /\ (Returned /\ op.f \in SleepTransitions /\ pre.plugged /\ ~pre.dma
            /\ "sleep_lock" \notin pre.held)
           => ~Refused
    /\ (Returned /\ op.f = "st7789v_display_software_reset" /\ pre.plugged /\ ~pre.dma
            /\ "sleep_lock" \in pre.held /\ "reset_lock" \notin pre.held)
           => ~Refused

\* C25: the two windows are coupled.  A transition of either kind called while the
\* short-delay lock of either window is held is refused with Busy, and a transition
\* of either kind that runs acquires the one 120 ms lock, sleep_switch_state_lock.
C25_WindowsCoupled ==
    /\ (Returned /\ op.f \in Transitions /\ pre.plugged /\ pre.held \cap ShortLocks # {})
           => Refused
    /\ (Returned /\ op.f \in Transitions /\ CalledIdle)
           => /\ result = 0
              /\ FirstEvent("lock", "sleep_switch_state_lock") > 0
              /\ FirstEvent("alarm", "sleep_switch_state_lock") > 0

C25_Witness ==
    /\ Returned
    /\ op.f \in SleepTransitions
    /\ pre.plugged /\ ~pre.dma
    /\ pre.held = { "reset_lock", "sleep_switch_state_lock" }
    /\ Refused

\* the call context is inside a transition: one called by the application, or the
\* software reset st7789v_init makes before it reads the identity
InTransition ==
    /\ cont # << >>
    /\ \/ op.f \in Transitions
       \/ /\ op.f = "st7789v_init"
          /\ \E k \in 1..Len(cont) :
                cont[k].i = "call" /\ cont[k].f = "st7789v_display_read_id"

\* the 120 ms lock is released in this step
LongLockReleased ==
    /\ "sleep_switch_state_lock" \in Held
    /\ "sleep_switch_state_lock" \notin Held'

\* C26: whenever the call context is not inside a transition, a held short-delay lock
\* (reset_lock, sleep_lock) comes with a held 120 ms lock; and when the 120 ms lock is
\* released, no short-delay lock is waiting for its alarm any more: the 5 ms alarm
\* of a transition has fired before its 120 ms alarm does.
C26_WindowStateMachine ==
    /\ [](~InTransition
             => \A m \in ShortLocks :
                   m \in Held => "sleep_switch_state_lock" \in Held)
    /\ [][LongLockReleased => Scheduled \cap ShortLocks = {}]_vars

C26_Witness ==
    /\ cont = << >>
    /\ main_pc = "app"
    /\ is_plugged
    /\ Held = { "sleep_lock", "sleep_switch_state_lock" }
    /\ Scheduled = { "sleep_lock", "sleep_switch_state_lock" }

\* a window lock that awaits its alarm is released in this step
TimedLockReleased(m) == m \in Scheduled /\ m \in Held /\ m \notin Held'

\* the step is one of the alarm pool and not of the call context
ByAlarmCallback == cont' = cont /\ Len(alarms') = Len(alarms) - 1

\* a transition has returned success: one called by the application, or the
\* software reset made by a st7789v_init that succeeded
TransitionDone ==
    Returned /\ result = 0 /\ op.f \in Transitions \cup { "st7789v_init" }

\* C27: when a transition has returned success, every window lock that is held has
\* an alarm scheduled to release it; every lock awaiting its alarm is eventually
\* released; it is released by the alarm callback and by no step of the call
\* context, and its alarm goes away only by firing; once no short-delay lock is held
\* and no DMA is in flight, a command is accepted.
C27_WindowEventuallyReleased ==
    /\ [](TransitionDone => (Held \cap WindowLocks) \subseteq Scheduled)
    /\ \A m \in WindowLocks : (m \in Scheduled) ~> (m \notin Held)
    /\ [][\A m \in WindowLocks :
             /\ TimedLockReleased(m) => ByAlarmCallback
             /\ (m \in Scheduled /\ m \notin Scheduled') => m \notin Held']_vars
    /\ []((is_plugged /\ ~st7789v_is_dma_busy /\ Held \cap ShortLocks = {})
             => EntryCheck("st7789v_display_no_operation") = "enter")

C27_Witness ==
    /\ Returned
    /\ op.f = "st7789v_display_sleep_out" /\ ~op.a.sync /\ result = 0
    /\ { "sleep_lock", "sleep_switch_state_lock" } \subseteq (Held \cap Scheduled)

BusyLockHeld == mutex["busy_lock"] # LOCK_INVALID_OWNER_ID

\* st7789v_dma_write triggers a transfer in this step
Triggered == Len(xfers') > Len(xfers)

\* busy_lock, held for a triggered transfer, becomes free in this step
BusyLockGivenUp == DmaHolders # {} /\ BusyLockHeld /\ ~BusyLockHeld'

\* the step is the handler's mutex_exit(&busy_lock) and not one of the call context
ByHandoff == irq_pc = "exit_busy" /\ irq_pc' = "close" /\ cont' = cont

\* C28: a transfer is triggered with busy_lock held; while the Completion Handoff of
\* a triggered transfer has not released busy_lock, the lock stays held; the step
\* that frees it is the handler's mutex_exit and no step of the call context; and
\* the lock is eventually free again, whatever the call context does, unless
\* st7789v_deinit has removed the handler before the interrupt was served.
C28_BusyLockHeldUntilHandoff ==
    /\ [][Triggered => (BusyLockHeld' /\ xfers'[Len(xfers')].released = 0)]_vars
    /\ []((DmaHolders # {} /\ main_pc = "app") => BusyLockHeld)
    /\ [][BusyLockGivenUp => ByHandoff]_vars
    /\ (DmaHolders # {}) ~> (~BusyLockHeld \/ main_pc = "halt")

C28_Witness ==
    /\ Returned
    /\ op.f = "st7789v_dma_write" /\ result = 0
    /\ DmaHolders # {}
    /\ BusyLockHeld
    /\ irq_pc = "idle"

\* C29 as stated: a Completion Handoff that has finished has closed the transaction
\* when its transfer was started with close_comm_when_finish and has left it alone
\* otherwise; it has released busy_lock before; and when the handler signals,
\* busy_lock has been released, the transaction has been closed where asked for, and
\* the stored handle is NULL afterwards.
C29_HandoffClosesAsRequested ==
    /\ [](done.released # 0 => done.closed = done.close)
    /\ [](irq_pc = "signal"
             => (Len(xfers) > 0 /\ Head(xfers).released = 1
                    /\ Head(xfers).closed = Head(xfers).close))
    /\ [][(irq_pc = "signal" /\ irq_pc' = "idle")
             => dma_operation_completion_signal' = NULL]_vars

\* the handler is entered in this step and goes on to its body
HandlerBodyEntered == irq_pc = "idle" /\ irq_pc' # "idle"

\* the interrupt status of the owned channel is acknowledged in this step
Acknowledged == irq0_status /\ ~irq0_status' /\ main_pc' = "app"

\* C30: the handler entered while the interrupt status of the owned channel is not
\* set returns at once: busy_lock, communication_lock, chip-select, the stored
\* notification handle, the close flag and the interrupt status are as before.  The
\* handler goes on to its body only when the status is set, and the status is
\* acknowledged only by the handler going on to its body.
C30_ForeignInterruptIgnored ==
    /\ [][IrqForeign
             => UNCHANGED << mutex, cs, dma_operation_completion_signal,
                             dma_operation_close_comm, irq0_status, irq_pc, xfers >>]_vars
    /\ [][HandlerBodyEntered => irq0_status]_vars
    /\ [][Acknowledged => HandlerBodyEntered]_vars

\* a transfer with a notification handle and the close flag is in flight, the
\* channel's status is not set, and the handler has been entered and has returned:
\* nothing but the handler's entry can have been the last step
C30_Witness ==
    /\ cont = << >> /\ op = NoCall
    /\ main_pc = "app" /\ dma_data_channel >= 0
    /\ irq_pc = "idle" /\ ~irq0_status
    /\ dma_busy /\ alarms = << >>
    /\ BusyLockHeld /\ cs = 0
    /\ mutex["communication_lock"] # LOCK_INVALID_OWNER_ID
    /\ dma_operation_completion_signal # NULL /\ dma_operation_close_comm
    /\ DmaHolders # {}

CommLockAt(k) == log[k].e = "lock" /\ log[k].m = "communication_lock"

CommUnlockAt(k) == log[k].e = "unlock" /\ log[k].m = "communication_lock"

\* the call acquired communication_lock at l and released that acquisition at u
CommHeldOver(l, u) ==
    /\ l < u
    /\ CommLockAt(l)
    /\ CommUnlockAt(u)
    /\ \A k \in (l + 1)..(u - 1) : ~CommLockAt(k) /\ ~CommUnlockAt(k)

\* the bytes written under command framing between positions l and u of the log
OpcodesBetween(l, u) ==
    { k \in (l + 1)..(u - 1) : log[k].e = "write" /\ log[k].dc = 0 }

\* C31: between an acquisition of communication_lock by an operation and the release
\* of that acquisition, exactly one write is made under command framing, and it is
\* a write of one byte; when st7789v_display_memory_write_async, which leaves the
\* release to the Completion Handoff, returns success, it has written one opcode
\* since its acquisition.
C31_OneCommandPerTransaction ==
    /\ \A l, u \in 1..Len(log) :
          CommHeldOver(l, u)
              => /\ Cardinality(OpcodesBetween(l, u)) = 1
                 /\ \A k \in OpcodesBetween(l, u) : Len(log[k].bytes) = 1
    /\ (Returned /\ op.f = "st7789v_display_memory_write_async" /\ result = 0
            /\ log # << >>)
           => \E l \in 1..Len(log) :
                 /\ CommLockAt(l)
                 /\ Cardinality(OpcodesBetween(l, Len(log) + 1)) = 1

\* the synchronous operations: st7789v_write_sync, st7789v_read_sync and the
\* display operations other than st7789v_display_memory_write_async
SyncOps ==
    { "st7789v_write_sync", "st7789v_read_sync", "st7789v_display_no_operation",
      "st7789v_display_read_id", "st7789v_display_read_power_mode",
      "st7789v_display_set_column_address_window",
      "st7789v_display_software_reset", "st7789v_display_sleep_in",
      "st7789v_display_sleep_out" }

\* the acquisitions of m the call has made and not given back
Outstanding(m) ==
    Cardinality({ k \in 1..Len(log) : log[k].e = "lock" /\ log[k].m = m })
        - Cardinality({ k \in 1..Len(log) : log[k].e = "unlock" /\ log[k].m = m })

\* the call has given back busy_lock and communication_lock as often as it took
\* them, chip-select is as it was when the call was made, and the data/command line
\* is at data level
Quiescent ==
    /\ Outstanding("busy_lock") = 0
    /\ Outstanding("communication_lock") = 0
    /\ cs = pre.cs
    /\ dc = 1

\* a Completion Handoff has finished for a transfer that was started with the close
\* flag, as st7789v_display_memory_write_async starts it
AsyncHandoffDone == done.released # 0 /\ done.close

\* C32: a synchronous operation of the initialised driver that returns, with any
\* result, is quiescent; and when the Completion Handoff of a transfer started with
\* the close flag has run, it has released busy_lock once and closed the
\* transaction.
C32_QuiescentAfterReturn ==
    /\ (Returned /\ op.f \in SyncOps /\ dma_data_channel >= 0) => Quiescent
    /\ AsyncHandoffDone => (done.released = 1 /\ done.closed)

\* the register reads that need the one-clock read turnaround
TurnaroundReads == { "st7789v_display_read_id", "st7789v_display_read_status" }

\* the positions in the log of the events e
Positions(e) == { k \in 1..Len(log) : log[k].e = e }

\* st7789v_dummy_cycle returns in this step
DummyCycleReturns == CallerAt("dummy_cycle") /\ cont' # cont

\* C33: st7789v_dummy_cycle changes nothing while a DMA transfer is in flight, and
\* otherwise hands the clock pin to software, pulses it once and hands it back to
\* the SPI; it takes and releases no mutex.  No operation reaches the primitive
\* while a transfer is in flight.  st7789v_display_read_id and
\* st7789v_display_read_status, when they run, pulse the clock exactly once, after
\* the one write they make (the opcode, under command framing) and before the one
\* read, with the pin back at the SPI before the read.
C33_DummyCycle ==
    /\ [][DummyCycleReturns
             => /\ mutex' = mutex
                /\ log' = IF dma_busy THEN log ELSE log \o DummyCycleEvents]_vars
    /\ [](CallerAt("dummy_cycle") => ~dma_busy)
    /\ []((Returned /\ op.f \in TurnaroundReads /\ log # << >>)
             => \E w, p, r \in 1..Len(log) :
                   /\ Positions("write") = { w } /\ log[w].dc = 0
                   /\ Positions("pulse") = { p }
                   /\ Positions("read") = { r }
                   /\ w < p /\ p + 1 < r
                   /\ log[p - 1].e = "sck_function" /\ log[p - 1].m = "GPIO_FUNC_SIO"
                   /\ log[p + 1].e = "sck_function" /\ log[p + 1].m = "GPIO_FUNC_SPI"
                   /\ Positions("sck_function") = { p - 1, p + 1 })

C33_Witness ==
    /\ Returned
    /\ op.f = "st7789v_display_read_status"
    /\ Cardinality(Positions("pulse")) = 1
    /\ HasRead

\* C34: the Completion Handoff of a transfer signals the handle that was passed to
\* the st7789v_dma_write that triggered it, and none when NULL was passed, and it
\* closes the transaction exactly when that call passed the close flag.
C34_HandoffUsesItsOwnParameters ==
    done.released # 0
        => (done.signalled = done.sig /\ done.closed = done.close)

\* unlock_mutex_alarm_callback runs for the alarm at position i in this step
AlarmCallbackRuns(i) ==
    /\ alarms[i].m # "sleep_ms"
    /\ cont' = cont
    /\ alarms' = RemoveAt(alarms, i)

\* the alarms pending for the mutex m
AlarmsFor(m) == { i \in 1..Len(alarms) : alarms[i].m = m }

\* C35: the alarm callback releases a window lock that is held when it runs; and
\* whenever the call context is idle and the driver holds a DMA channel (it has been
\* set up and not shut down), a window lock that is held has exactly one alarm
\* pending to release it and a window lock that is free has none, so that no alarm
\* is left over to release a later acquisition.
C35_AlarmMatchesAcquisition ==
    /\ [][\A i \in 1..Len(alarms) : AlarmCallbackRuns(i) => alarms[i].m \in Held]_vars
    /\ []((cont = << >> /\ dma_data_channel >= 0)
             => \A m \in WindowLocks :
                   Cardinality(AlarmsFor(m)) = IF m \in Held THEN 1 ELSE 0)

\* st7789v_init has come back from a bring-up that found a DMA channel
BroughtUp == Returned /\ op.f = "st7789v_init" /\ result # -ENODMAAVAILABLE

\* the identity bytes the controller answered with
IdRead == buffer

\* C36: when st7789v_display_software_reset(true) has run and returns, the 5 ms alarm
\* has fired and reset busy is not reported; the identity read st7789v_init makes
\* next is therefore not refused: it clocks the identity in, and st7789v_init
\* returns success exactly when the identity read is that of the ST7789V.
C36_SyncResetReleasesShortLock ==
    /\ (Returned /\ op.f = "st7789v_display_software_reset" /\ op.a.sync
            /\ result = 0 /\ log # << >>)
           => (~st7789v_is_reset_busy /\ "reset_lock" \notin Scheduled)
    /\ BroughtUp
           => /\ HasRead
              /\ ~st7789v_is_reset_busy
              /\ result = (IF IdRead = ST7789V_DISPLAY_ID THEN 0 ELSE -ENODISPLAYCONNECTED)

C36_Witness ==
    /\ BroughtUp
    /\ result = 0
    /\ HasRead
    /\ "sleep_switch_state_lock" \in Held \cap Scheduled
    /\ "reset_lock" \notin Held

\* C37: chip-select is low only while communication_lock has an owner, and the DMA
\* channel is busy only while busy_lock has an owner.
C37_SelectAndBusyUnderLock ==
    /\ cs = 0 => mutex["communication_lock"] # LOCK_INVALID_OWNER_ID
    /\ dma_busy => BusyLockHeld

\* st7789v_init has set the driver up and has returned
Initialised == dma_data_channel >= 0 /\ op.f # "st7789v_init"

\* C38: once the driver is initialised, reset_lock and sleep_lock are never held at
\* the same time, whatever transitions the application calls and whenever.
C38_ShortLocksExclusive ==
    Initialised => ~("reset_lock" \in Held /\ "sleep_lock" \in Held)

\* a software reset called in the 120 ms window of a sleep transition, after the
\* 5 ms alarm of that transition: it holds reset_lock and waits for the 120 ms lock
C38_Witness ==
    /\ Initialised
    /\ op.f = "st7789v_display_software_reset"
    /\ pre.timed = { "sleep_switch_state_lock" }
    /\ BlockedOn("sleep_switch_state_lock")
    /\ Held = { "reset_lock", "sleep_switch_state_lock" }

\* a call is under way on the driver st7789v_init has set up
CallPending == dma_data_channel >= 0 /\ cont # << >>

\* C39: once st7789v_init has set the driver up, every call of a top-level operation
\* returns, given that alarms fire and that the DMA interrupt is raised and served;
\* the call context does not wait forever for communication_lock, busy_lock or a
\* window lock.
C39_EveryCallReturns ==
    /\ CallPending ~> (cont = << >>)
    /\ \A m \in MutexNames : (dma_data_channel >= 0 /\ BlockedOn(m)) ~> ~BlockedOn(m)

\* an asynchronous memory write waits for the transaction of the transfer before it
C39_Witness ==
    /\ Initialised
    /\ op.f = "st7789v_display_memory_write_async"
    /\ BlockedOn("communication_lock")
    /\ Len(xfers) > 0

\* the operations that read a register of the controller
RegisterReads ==
    ReadOps \cup { "st7789v_display_read_status", "st7789v_display_get_ctrl_register" }

\* C40: a register-read operation that has clocked its response in has written one
\* byte to the bus, under command framing and before the response, and nothing else:
\* no parameter and no data byte.
C40_ReadWritesOpcodeOnly ==
    (Returned /\ op.f \in RegisterReads /\ HasRead)
        => /\ Len(Writes(log)) = 1
           /\ Writes(log)[1].dc = 0
           /\ Writes(log)[1].v = 1
           /\ \A k \in Positions("read") : \E j \in Positions("write") : j < k

====
